---- MODULE Spec2Model ----
(***************************************************************************)
(* Worker coordination of revelryengine/utils: lib/worker-helper.js        *)
(* (WorkerHelper, WorkerHelperPool, the SharedWorker blob election, the    *)
(* fetch proxy, the shared context of the preamble), lib/lock.js,          *)
(* lib/job-queue.js and the LRUCache.                                      *)
(*                                                                         *)
(* The specifications of this module, one per subsystem:                   *)
(*   SpecW     one WorkerHelper: init / disconnect / callMethod and the    *)
(*             worker-side 'method' handler of the bootstrap code          *)
(*   SpecPool  one WorkerHelperPool over its member WorkerHelpers          *)
(*   SpecElect the hosts (tabs) that run the SharedWorker blob election    *)
(*             over navigator.locks and a BroadcastChannel                 *)
(*   SpecElectFair  SpecElect with a lock manager and event loops that     *)
(*             run what is due                                             *)
(*   SpecProxy the hosts that serve the fetch proxy of one worker uri and  *)
(*             the contexts that forward their requests to it              *)
(*   SpecLock  requestLock over the file lock of lib/lock.js               *)
(*   SpecQueue one Queue of lib/job-queue.js and its jobs                  *)
(*   SpecCache one LRUCache under put, get and delete                      *)
(*   SpecShared  one shared context and the helpers connected to it        *)
(* SpecWFair, SpecPoolFair, SpecProxyFair and SpecQueueFair add the event  *)
(* loops that run what is due.                                             *)
(***************************************************************************)
EXTENDS Integers, Sequences, FiniteSets, TLC

(***************************************************************************)
(* Bounds                                                                  *)
(***************************************************************************)
MaxInitCalls   == 2   \* init() calls made on the stand-alone helper
MaxCalls       == 1   \* callMethod() calls made on the stand-alone helper
MaxDisconnects == 2   \* disconnect() calls made on the stand-alone helper
MaxPageHides   == 2   \* pagehide events dispatched on the page of the stand-alone helper
PoolCount      == 3   \* `count` of the pool: the number of member helpers
MaxPoolInits   == 1   \* how often the pool is (re-)initialized
MaxOutstanding == 4   \* pool calls that may be outstanding at once
NumHosts       == 3   \* hosts (tabs) that run the SharedWorker blob election
NumProxyHosts  == 2   \* hosts (helpers) that serve the fetch proxy of one worker uri
MaxFetches     == 2   \* requests the contexts forward to the proxy
NumRequesters  == 3   \* requestLock() calls made for one lock name
NumJobs        == 2   \* jobs given to the queue
MaxAdds        == 3   \* queue.add() calls
MaxRuns        == 3   \* runs of the processing loop
NumClients     == 3   \* helpers that connect to one shared context
MaxClientCalls == 1   \* 'method' messages each of them posts
MaxCapacity    == 3   \* largest `capacity` an LRUCache is constructed with
NumKeys        == 4   \* keys used with the LRUCache
NumValues      == 2   \* values used with the LRUCache

(***************************************************************************)
(* Values that cross the channels.  Every value is a record [kind, v] so   *)
(* that results, errors and undefined stay comparable.                     *)
(***************************************************************************)
Undefined == [kind |-> "undefined", v |-> ""]
Val(x)    == [kind |-> "value", v |-> x]
Err(k, m) == [kind |-> k, v |-> m]

\* NonNull(this.#state, ...) of the state getter
NotInitializedError ==
    Err("Error", "WorkerHelper has not been initialized. Call init() before accessing the worker state.")

\* new DOMException(reason, 'AbortError')
AbortError(reason) == Err("AbortError", reason)

\* what target.postMessage throws for a message that cannot be cloned
DataCloneError == Err("DataCloneError", "could not be cloned")

\* the methods of the module the worker imports (test/fixtures/worker.js)
Methods == {"method", "methodError"}

\* await module[method]?.(...args, signal), destructured as { result, transfer }
ModuleCall(m) ==
    CASE m = "method"      -> [threw |-> FALSE, value |-> Val("bar")]
      [] m = "methodError" -> [threw |-> TRUE,  value |-> Err("Error", "Test error")]
      [] OTHER             -> [threw |-> TRUE,  value |-> Err("TypeError", "not a function")]

AbortReasons == {"test abort"}

(***************************************************************************)
(* State                                                                   *)
(***************************************************************************)
VARIABLES
    \* ---- WorkerHelper (one record per helper object)
    initPromise,   \* #initPromise: 0 = null, else the id of the memoized promise
    initStatus,    \* state of that promise: "none" | "pending" | "resolved" | "rejected"
    initRuns,      \* how often the init body ran, i.e. #createWorker was called
    hstate,        \* #state: 0 = null, else the id of the frozen {worker, channel}
    connects,      \* 'connect' messages posted to the worker
    epoch,         \* disconnect() calls so far
    ctl,           \* control channel port1 -> port2: call ids, 0 = {type:'disconnect'}
    workerUp,      \* the context behind the helper: "none" | "up" | "closed"
    initCalls,     \* the init() calls made: what each got back and saw
    calls,         \* the callMethod() calls made, each with its ephemeral channel
    \* ---- WorkerHelperPool
    poolPromise,   \* #initPromise of the pool: 0 = null, else the init run it belongs to
    poolStatus,    \* per init run: "none" | "pending" | "resolved" | "rejected"
    poolRuns,      \* init bodies started so far
    arrays,        \* the array objects #workerPool has named: run -> sequence of members
    poolArr,       \* which array #workerPool names now (0 = the initial [])
    loops,         \* per init run, where its for-of loop stands: the index it is
                   \* at (0 = not looping) and the member whose init() it awaits
    tasks,         \* the `tasks` field of each pool entry (one entry per member)
    pcalls,        \* per entry, the delegated calls that have not settled: those sent
                   \* to the worker and those doomed to reject (member without state)
    lastEvent,     \* the latest pool call event: a callMethod() with what it selected
                   \* on, or the settling of a delegated call
    \* ---- SharedWorker blob election (one attempt per host)
    ver,           \* the class the hosts run: 0 = none yet, 2 = SharedWorkerHelper
                   \* .createWorkerBlob, 3 = WorkerHelper.#createSharedWorkerBlobURL
    pc,            \* where each host's attempt stands
    channel,       \* each host's BroadcastChannel: "none" | "open" | "closed"
    onmessage,     \* channel.onmessage: "none" | "resolve" | "reply"
    inbox,         \* the distinct messages on their way to each host's channel
    held,          \* the hosts the lock manager has granted the lock to
    lockQueue,     \* the blocking lock requests that wait, oldest first
    timer,         \* the setTimeout of a contender: "off" | "armed" | "fired" (it
                   \* went off with no message received before) | "spent" (a
                   \* message settled the wait first: reject() will do nothing)
    blob,          \* the `blob` each host's handler closes over (NoBlob = not set)
    generated,     \* whether the host created a blob URL of its own
    posted,        \* what each host's takeover handler has broadcast so far
    outcome,       \* how the promise of each attempt stands
    leaderAtStart, \* who held the lock when the host started its attempt (0 = nobody)
    late           \* whether a reference reached the host after its attempt had failed

VARIABLES
    \* ---- the teardown hook of the WorkerHelpers
    helperCtl,     \* #abortCtl of each helper: the id of the AbortController it names
    listeners,     \* per helper, the 'pagehide' listeners init() added to globalThis that
                   \* are still registered: the controller whose signal each was added with
    pagehides      \* the pagehide events dispatched so far and what each made happen

hvars == <<helperCtl, listeners, pagehides>>

wvars == <<initPromise, initStatus, initRuns, hstate, connects, epoch, ctl,
           workerUp, initCalls, calls>>

pvars == <<poolPromise, poolStatus, poolRuns, arrays, poolArr, loops, tasks, pcalls,
           lastEvent>>

evars == <<ver, pc, channel, onmessage, inbox, held, lockQueue, timer, blob,
           generated, posted, outcome, leaderAtStart, late>>

VARIABLES
    \* ---- the fetch proxy between the contexts (workers) and their hosts
    pver,            \* the class whose proxy runs: 2 (BroadcastChannel and lock), 3 (control channel), 0 = not set up
    pshared,         \* whether the hosts share one context (SharedWorker)
    fetches,         \* the requests the contexts forwarded: the fetchQueue entries
    requestChannel,  \* per host, the request messages on their way to its handler
    proxy,           \* per host and request, how far its handler is
    abortCtl,        \* per host and request, whether the handler's AbortController is aborted
    responseChannel, \* per host and request, the null messages on their way to its responseChannel
    proxyLock,       \* the holder <<host, request>> of the lock of the pair, << >> = free
    proxyWait,       \* the lock requests that wait, oldest first
    toContext,       \* per context, the response messages on their way to it
    thrown,          \* errors that escaped a host's handler
    rotation         \* clients.push(clients.shift()): how far the client list is rotated

xvars == <<pver, pshared, fetches, requestChannel, proxy, abortCtl, responseChannel,
           proxyLock, proxyWait, toContext, thrown, rotation>>

VARIABLES
    lockFilePath,    \* the file at lockFilePath: its inode, 0 when there is none
    inodes,          \* the files created so far
    file,            \* file[r]: the inode Deno.openSync returned to request r
    lock,            \* file.lock(): "none", "pending", "granted", "released", "cancelled"
    request,         \* where request r stands: "idle", "racing", "removing", "done"
    callback,        \* the callback of request r: "none", "running", "settled"
    signal,          \* options.signal of request r: "none", "live", "aborted"
    abortedAt,       \* where request r stood when its signal was aborted
    result           \* how the promise requestLock returned has settled

lvars == <<lockFilePath, inodes, file, lock, request, callback, signal, abortedAt, result>>

VARIABLES
    queue,           \* #queue: the entries of the Set in insertion order, 0 where one was deleted
    processing,      \* #processing: a job, 0 for null
    promise,         \* #promise: the run whose promise it is, 0 for null
    disposed,        \* #disposed
    jobAborted,      \* jobAborted[j]: job.signal.aborted
    runs,            \* the runs of the loop in process(): status, iterator position, i, task
    nruns,           \* the runs started so far
    stack,           \* the runs whose task is in its synchronous part, innermost last
    adds,            \* the add() calls made so far
    lastProcess      \* what the last process() call from outside returned: the run whose
                     \* promise it is, 0 for a promise of 0, -1 before the first call

qvars == <<queue, processing, promise, disposed, jobAborted, runs, nruns, stack, adds,
           lastProcess>>

VARIABLES
    cache,           \* this.cache: the entries of the Map in insertion order
    capacity,        \* this.capacity, 0 before the constructor ran
    touched,         \* the keys put or got since construction, least recent first
    lastEvicted      \* the key put() last passed to #persist.delete, 0 for none

cvars == <<cache, capacity, touched, lastEvicted>>

VARIABLES
    \* ---- one shared context (preamble) and the helpers connected to it
    clients,         \* `clients` of the context: the ports pushed, by client, 0 = undefined
    closing,         \* whether the context has called self.close()
    loaded,          \* modulePromise is set: the module runs and may call fetch()
    helper,          \* each helper: "new" | "ready" (it posted 'connect') | "gone"
    connectsSent,    \* the 'connect' messages on their way to self.onmessage
    portQ,           \* per client, the messages posted on port1 and not yet handled
    listening,       \* per client, whether client.onmessage is set on an open port
    methodCalls,     \* per client, the 'method' messages its helper posted
    served,          \* per client, the 'method' messages the context answered
    lastMessage      \* the message client.onmessage handled last and the client
                     \* list before and after it

svars == <<clients, closing, loaded, helper, connectsSent, portQ, listening, methodCalls,
           served, lastMessage>>

vars == <<wvars, hvars, pvars, evars, xvars, lvars, qvars, cvars, svars>>

\* the helper SpecW drives; the pool's members are 1, 2, ...
Standalone == 0

\* new WorkerHelper(...) of init run r, entry k
Member(r, k) == (r - 1) * PoolCount + k

Members == 1..(MaxPoolInits * PoolCount)

Helpers == {Standalone} \cup Members

(***************************************************************************)
(* WorkerHelper.init                                                       *)
(***************************************************************************)

\* mutant: aborting a controller leaves the listeners added with its signal
Aborted_Never(id, a) == FALSE

\* controller a is aborted: is a listener added with the signal of controller id
\* removed?
Aborted(id, a) == id = a

\* the listeners ls that are left when controller a is aborted
Removed(ls, a) == SelectSeq(ls, LAMBDA id : ~Aborted(id, a))

\* mutant: `=` in place of `??=`, every init() call starts a body
StartsInit_Always(h) == initPromise[h] >= 0

\* this.#initPromise ??= (async () => {...})(): is a new body started?
StartsInit(h) == initPromise[h] = 0

\* the synchronous part of one init() call on h: up to `await this.#createWorker()`
InitSync(h) ==
    IF StartsInit(h)
    THEN /\ initRuns'    = [initRuns    EXCEPT ![h] = @ + 1]
         /\ initPromise' = [initPromise EXCEPT ![h] = initRuns[h] + 1]
         /\ initStatus'  = [initStatus  EXCEPT ![h] = "pending"]
         /\ listeners'   = [listeners   EXCEPT ![h] = Removed(@, helperCtl[h])]
         /\ helperCtl'   = [helperCtl   EXCEPT ![h] = @ + 1]
    ELSE UNCHANGED <<initRuns, initPromise, initStatus, listeners, helperCtl>>

\* a caller calls init() and keeps the promise it got
InitCall(h) ==
    /\ Len(initCalls) < MaxInitCalls
    /\ InitSync(h)
    /\ initCalls' = Append(initCalls,
          [h       |-> h,
           promise |-> initPromise'[h],
           runs    |-> initRuns'[h],
           early   |-> initStatus[h] \in {"none", "pending"},
           epoch   |-> epoch[h],
           seen    |-> -1])
    /\ UNCHANGED <<hstate, connects, epoch, ctl, workerUp, calls, pagehides>>

\* #createWorker resolved: the rest of the init body runs (state, fetch handler,
\* pagehide hook, 'connect') and the promise resolves
InitResume(h) ==
    /\ initStatus[h] = "pending"
    /\ hstate'     = [hstate     EXCEPT ![h] = initPromise[h]]
    /\ connects'   = [connects   EXCEPT ![h] = @ + 1]
    /\ workerUp'   = [workerUp   EXCEPT ![h] = "up"]
    /\ initStatus' = [initStatus EXCEPT ![h] = "resolved"]
    /\ listeners'  = [listeners  EXCEPT ![h] = Append(@, helperCtl[h])]
    /\ UNCHANGED <<initPromise, initRuns, epoch, ctl, initCalls, calls, helperCtl,
                   pagehides>>

\* #createWorker rejected (the preamble could not be fetched, the election timed out)
InitFail(h) ==
    /\ initStatus[h] = "pending"
    /\ initStatus' = [initStatus EXCEPT ![h] = "rejected"]
    /\ UNCHANGED <<initPromise, initRuns, hstate, connects, epoch, ctl, workerUp,
                   initCalls, calls>>

\* a caller whose promise resolved reads helper.state: 0 = the getter threw
Observe(i) ==
    /\ i \in DOMAIN initCalls
    /\ initCalls[i].seen = -1
    /\ initCalls[i].promise = initPromise[initCalls[i].h]
    /\ initStatus[initCalls[i].h] = "resolved"
    /\ initCalls' = [initCalls EXCEPT ![i].seen = hstate[initCalls[i].h]]
    /\ UNCHANGED <<initPromise, initStatus, initRuns, hstate, connects, epoch, ctl,
                   workerUp, calls>>

(***************************************************************************)
(* WorkerHelper.disconnect                                                 *)
(***************************************************************************)

\* mutant: the 'disconnect' message is posted whether or not there is a state
SendsDisconnect_Always(h) == TRUE

\* if (this.#state) { port1.postMessage({ type: 'disconnect' }); ... }
SendsDisconnect(h) == hstate[h] # 0

\* h.disconnect(); epoch counts the calls
Disconnect(h) ==
    /\ epoch[h] < MaxDisconnects
    /\ epoch' = [epoch EXCEPT ![h] = @ + 1]
    /\ IF SendsDisconnect(h)
       THEN /\ ctl'    = [ctl    EXCEPT ![h] = Append(@, 0)]
            /\ hstate' = [hstate EXCEPT ![h] = 0]
       ELSE UNCHANGED <<ctl, hstate>>
    /\ listeners' = [listeners EXCEPT ![h] = Removed(@, helperCtl[h])]
    /\ helperCtl' = [helperCtl EXCEPT ![h] = @ + 1]
    /\ UNCHANGED <<initPromise, initStatus, initRuns, connects, workerUp, initCalls, calls,
                   pagehides>>

(***************************************************************************)
(* The teardown hook: globalThis.addEventListener('pagehide',              *)
(* () => this.disconnect(), { signal: this.#abortCtl.signal })             *)
(***************************************************************************)

\* how many of the listeners ls run when the event is dispatched and helperCtl
\* is a: each one that runs calls disconnect(), which aborts the controller the
\* helper names then and makes a new one; a listener removed before its turn
\* does not run
RECURSIVE Dispatched(_, _)
Dispatched(ls, a) ==
    IF ls = << >> THEN 0 ELSE 1 + Dispatched(Removed(Tail(ls), a), a + 1)

\* the listeners that are left of ls after n disconnect() calls from controller a on
RECURSIVE StillListening(_, _, _)
StillListening(ls, a, n) ==
    IF n = 0 THEN ls ELSE StillListening(Removed(ls, a), a + 1, n - 1)

\* a pagehide event is dispatched on the page of h
PageHide(h) ==
    /\ Len(pagehides) < MaxPageHides
    /\ LET n == Dispatched(listeners[h], helperCtl[h]) IN
       /\ epoch[h] + n <= MaxDisconnects
       /\ epoch'     = [epoch     EXCEPT ![h] = @ + n]
       /\ helperCtl' = [helperCtl EXCEPT ![h] = @ + n]
       /\ listeners' = [listeners EXCEPT ![h] = StillListening(@, helperCtl[h], n)]
       /\ IF n > 0 /\ SendsDisconnect(h)
          THEN /\ ctl'    = [ctl    EXCEPT ![h] = Append(@, 0)]
               /\ hstate' = [hstate EXCEPT ![h] = 0]
          ELSE UNCHANGED <<ctl, hstate>>
       /\ pagehides' = Append(pagehides,
             [h |-> h, ready |-> hstate[h] # 0, epoch |-> epoch[h], ran |-> n,
              state |-> hstate'[h]])
    /\ UNCHANGED <<initPromise, initStatus, initRuns, connects, workerUp, initCalls, calls>>

(***************************************************************************)
(* WorkerHelper.callMethod and #asyncPostMessage (host side)               *)
(***************************************************************************)

\* mutant: the state getter hands out null instead of throwing
StateThrows_Never(h) == FALSE

\* get state() { return NonNull(this.#state, 'WorkerHelper has not been ...') }:
\* does reading this.state (this.worker) throw?
StateThrows(h) == hstate[h] = 0

\* the call record of a callMethod() that sent nothing; state is the handle the
\* helper held when the call was made (0 = none)
NoChannel(h, m, sig0, reason, err) ==
    [h |-> h, method |-> m, sig |-> sig0, reason |-> reason, listener |-> FALSE,
     state |-> hstate[h],
     sent |-> FALSE, status |-> "rejected", value |-> err,
     port1 |-> FALSE, notices |-> 0, toWorker |-> << >>,
     wphase |-> "none", wabort |-> "", wsent |-> << >>, toHost |-> << >>,
     got |-> << >>, abortedPending |-> FALSE, lateReply |-> FALSE]

\* mutant: a remote failure is re-wrapped instead of passed through
CallOutcome_Wrapped(reply) ==
    IF reply.ok
    THEN [status |-> "resolved", value |-> reply.result]
    ELSE [status |-> "rejected", value |-> Err("Error", "Failed to call method")]

\* callMethod: what the call settles with once the reply event `reply` resolved
\* #asyncPostMessage
CallOutcome(reply) ==
    IF reply.ok
    THEN [status |-> "resolved", value |-> reply.result]
    ELSE [status |-> "rejected", value |-> reply.error]

\* mutant: the listener only forwards the notice and leaves the promise alone
AbortListener_NoReject(call, reason) ==
    IF ~call.listener THEN call
    ELSE [call EXCEPT
            !.notices        = IF call.port1 THEN @ + 1 ELSE @,
            !.toWorker       = IF call.port1 THEN Append(@, reason) ELSE @,
            !.abortedPending = call.status = "pending"]

\* the abort listener of #asyncPostMessage fires with signal.reason = reason:
\* the notice goes out on port1, the promise rejects, finally closes the ports
AbortListener(call, reason) ==
    IF ~call.listener THEN call
    ELSE [call EXCEPT
            !.notices        = IF call.port1 THEN @ + 1 ELSE @,
            !.toWorker       = IF call.port1 THEN Append(@, reason) ELSE @,
            !.status         = IF call.status = "pending" THEN "rejected" ELSE @,
            !.value          = IF call.status = "pending" THEN AbortError(reason) ELSE @,
            !.abortedPending = call.status = "pending",
            !.port1          = FALSE]

\* mutant: a reply settles the call again, whatever became of it before
Port1Message_Resettles(call, reply) ==
    [call EXCEPT
        !.got    = Append(@, reply),
        !.status = CallOutcome(reply).status,
        !.value  = CallOutcome(reply).value,
        !.port1  = FALSE]

\* a message event for port1: onmessage resolves the promise, callMethod settles
\* and finally closes the ports; a closed port receives nothing
Port1Message(call, reply) ==
    IF call.port1 /\ call.status = "pending"
    THEN [call EXCEPT
            !.got    = Append(@, reply),
            !.status = CallOutcome(reply).status,
            !.value  = CallOutcome(reply).value,
            !.port1  = FALSE]
    ELSE [call EXCEPT !.lateReply = TRUE]

\* callMethod({ method, args, transfer, signal }) on helper h.  sig0 is the state
\* of the signal passed in, cloneable whether postMessage accepts the message.
CallMethod(h, m, sig0, reason, cloneable) ==
    /\ Len(calls) < MaxCalls
    /\ IF StateThrows(h)
       THEN /\ calls' = Append(calls, NoChannel(h, m, sig0, reason, NotInitializedError))
            /\ UNCHANGED ctl
       ELSE IF ~cloneable
       THEN /\ calls' = Append(calls,
                  [NoChannel(h, m, sig0, reason, DataCloneError) EXCEPT !.port1 = TRUE])
            /\ UNCHANGED ctl
       ELSE /\ calls' = Append(calls,
                  [NoChannel(h, m, sig0, reason, Undefined) EXCEPT
                      !.sent = TRUE, !.status = "pending", !.port1 = TRUE,
                      !.listener = (sig0 = "live"), !.wphase = "queued"])
            /\ ctl' = [ctl EXCEPT ![h] = Append(@, Len(calls) + 1)]
    /\ UNCHANGED <<initPromise, initStatus, initRuns, hstate, connects, epoch,
                   workerUp, initCalls>>

\* the caller aborts the signal it passed to call c
Abort(c, reason) ==
    /\ c \in DOMAIN calls
    /\ calls[c].sig = "live"
    /\ calls' = [calls EXCEPT
          ![c] = [AbortListener(calls[c], reason) EXCEPT !.sig = "aborted", !.reason = reason]]
    /\ UNCHANGED <<initPromise, initStatus, initRuns, hstate, connects, epoch, ctl,
                   workerUp, initCalls>>

\* the reply the worker posted reaches port1
ReplyDeliver(c) ==
    /\ c \in DOMAIN calls
    /\ calls[c].toHost # << >>
    /\ calls' = [calls EXCEPT
          ![c] = [Port1Message(calls[c], Head(calls[c].toHost)) EXCEPT !.toHost = Tail(@)]]
    /\ UNCHANGED <<initPromise, initStatus, initRuns, hstate, connects, epoch, ctl,
                   workerUp, initCalls>>

(***************************************************************************)
(* The bootstrap code in the worker (getModulePreamble): client.onmessage  *)
(***************************************************************************)

\* the reply of the 'method' case: out is what the method did, aborted the
\* reason the worker's AbortController was aborted with ("" = not aborted)
WorkerReply(out, aborted) ==
    IF out.threw
    THEN [ok |-> FALSE, result |-> Undefined, error |-> out.value]
    ELSE IF aborted # ""
    THEN [ok |-> FALSE, result |-> Undefined, error |-> AbortError(aborted)]
    ELSE [ok |-> TRUE, result |-> out.value, error |-> Undefined]

\* the worker takes the next message of the control channel
WorkerReceive(h) ==
    /\ workerUp[h] = "up"
    /\ ctl[h] # << >>
    /\ ctl' = [ctl EXCEPT ![h] = Tail(@)]
    /\ IF Head(ctl[h]) = 0
       THEN \* 'disconnect': the last client left, self.close()
            /\ workerUp' = [workerUp EXCEPT ![h] = "closed"]
            /\ UNCHANGED calls
       ELSE \* 'method': port.onmessage is set and the method is invoked
            /\ calls' = [calls EXCEPT ![Head(ctl[h])].wphase = "running"]
            /\ UNCHANGED workerUp
    /\ UNCHANGED <<initPromise, initStatus, initRuns, hstate, connects, epoch, initCalls>>

\* port.onmessage = (message) => abortCtl.abort(message.data)
NoticeDeliver(c) ==
    /\ c \in DOMAIN calls
    /\ calls[c].toWorker # << >>
    /\ calls[c].wphase \in {"running", "done"}
    /\ workerUp[calls[c].h] = "up"
    /\ calls' = [calls EXCEPT
          ![c].toWorker = Tail(@),
          ![c].wabort   = IF calls[c].wphase = "running" /\ @ = ""
                          THEN Head(calls[c].toWorker) ELSE @]
    /\ UNCHANGED <<initPromise, initStatus, initRuns, hstate, connects, epoch, ctl,
                   workerUp, initCalls>>

\* the method returned or threw: the reply is posted and the port closed
WorkerFinish(c) ==
    /\ c \in DOMAIN calls
    /\ calls[c].wphase = "running"
    /\ workerUp[calls[c].h] = "up"
    /\ LET reply == WorkerReply(ModuleCall(calls[c].method), calls[c].wabort)
       IN  calls' = [calls EXCEPT
              ![c].wphase = "done",
              ![c].wsent  = Append(@, reply),
              ![c].toHost = Append(@, reply)]
    /\ UNCHANGED <<initPromise, initStatus, initRuns, hstate, connects, epoch, ctl,
                   workerUp, initCalls>>

InitW ==
    /\ initPromise = [h \in Helpers |-> 0]
    /\ initStatus  = [h \in Helpers |-> "none"]
    /\ initRuns    = [h \in Helpers |-> 0]
    /\ hstate      = [h \in Helpers |-> 0]
    /\ connects    = [h \in Helpers |-> 0]
    /\ epoch       = [h \in Helpers |-> 0]
    /\ ctl         = [h \in Helpers |-> << >>]
    /\ workerUp    = [h \in Helpers |-> "none"]
    /\ initCalls   = << >>
    /\ calls       = << >>

\* #abortCtl = new AbortController(), no listener added yet
InitHook ==
    /\ helperCtl = [h \in Helpers |-> 1]
    /\ listeners = [h \in Helpers |-> << >>]
    /\ pagehides = << >>

(***************************************************************************)
(* WorkerHelperPool                                                        *)
(***************************************************************************)

\* the entries of the array #workerPool names now
CurrentPool == arrays[poolArr]

RECURSIVE InsertByTasks_Descending(_, _, _)
\* mutant: the comparator is b.tasks - a.tasks
InsertByTasks_Descending(x, s, t) ==
    IF s = << >> THEN <<x>>
    ELSE IF t[x] - t[Head(s)] <= 0
         THEN <<Head(s)>> \o InsertByTasks_Descending(x, Tail(s), t)
         ELSE <<x>> \o s

RECURSIVE InsertByTasks(_, _, _)
\* x goes behind every entry that does not compare greater than it
InsertByTasks(x, s, t) ==
    IF s = << >> THEN <<x>>
    ELSE IF t[Head(s)] - t[x] <= 0
         THEN <<Head(s)>> \o InsertByTasks(x, Tail(s), t)
         ELSE <<x>> \o s

RECURSIVE SortByTasks(_, _)
\* this.#workerPool.sort((a, b) => a.tasks - b.tasks): stable, ascending, in place
SortByTasks(s, t) ==
    IF s = << >> THEN << >>
    ELSE InsertByTasks(s[Len(s)], SortByTasks(SubSeq(s, 1, Len(s) - 1), t), t)

\* mutant: the count is given back in then(), so a rejected call keeps it
TasksAfterSettle_ThenOnly(n, ok) == IF ok THEN n - 1 ELSE n

\* target.tasks-- of the finally callback; ok tells how the delegated call settled
TasksAfterSettle(n, ok) == n - 1

\* for (const worker of this.#workerPool): the iterator's index and the entry
\* the body holds
Looping(i, h) == [at |-> i, worker |-> h]

NotLooping == Looping(0, 0)

\* the members one init run creates, in array order
NewEntries(r) == [k \in 1..PoolCount |-> Member(r, k)]

\* pool.init(): this.#initPromise ??= (async () => {...})()
\* The body builds the array and runs up to its first `await worker.worker.init()`.
PoolInit ==
    /\ poolPromise = 0
    /\ poolRuns < MaxPoolInits
    /\ LET r == poolRuns + 1 IN
       /\ poolRuns'    = r
       /\ poolPromise' = r
       /\ poolStatus'  = [poolStatus EXCEPT ![r] = "pending"]
       /\ arrays'      = [arrays EXCEPT ![r] = NewEntries(r)]
       /\ poolArr'     = r
       /\ loops'       = [loops EXCEPT ![r] = Looping(1, Member(r, 1))]
       /\ InitSync(Member(r, 1))
    /\ UNCHANGED <<hstate, connects, epoch, ctl, workerUp, initCalls, calls, tasks, pcalls,
                   lastEvent, pagehides>>

\* the init() a for-of loop awaited has settled: the await throws, or the
\* iterator reads the entry behind the index it last read, in the array as it
\* is now (callMethod sorts it in place, disconnect empties it), or it is done
PoolInitStep(r) ==
    /\ r \in 1..MaxPoolInits
    /\ loops[r].at # 0
    /\ initStatus[loops[r].worker] \in {"resolved", "rejected"}
    /\ IF initStatus[loops[r].worker] = "rejected"
       THEN \* the body ends, its promise rejects
            /\ loops'      = [loops EXCEPT ![r] = NotLooping]
            /\ poolStatus' = [poolStatus EXCEPT ![r] = "rejected"]
            /\ UNCHANGED <<initRuns, initPromise, initStatus, listeners, helperCtl>>
       ELSE IF loops[r].at + 1 > Len(arrays[r])
       THEN \* the iterator is done: return this
            /\ loops'      = [loops EXCEPT ![r] = NotLooping]
            /\ poolStatus' = [poolStatus EXCEPT ![r] = "resolved"]
            /\ UNCHANGED <<initRuns, initPromise, initStatus, listeners, helperCtl>>
       ELSE /\ loops' = [loops EXCEPT
                            ![r] = Looping(loops[r].at + 1, arrays[r][loops[r].at + 1])]
            /\ InitSync(arrays[r][loops[r].at + 1])
            /\ UNCHANGED poolStatus
    /\ UNCHANGED <<hstate, connects, epoch, ctl, workerUp, initCalls, calls, pagehides,
                   poolPromise, poolRuns, arrays, poolArr, tasks, pcalls,
                   lastEvent>>

\* the delegated calls outstanding on member h
PendingOn(h) == pcalls[h].sent + pcalls[h].doomed

RECURSIVE PendingOver(_)
\* the delegated calls outstanding on the members in S
PendingOver(S) ==
    IF S = {} THEN 0
    ELSE LET x == CHOOSE y \in S : TRUE IN PendingOn(x) + PendingOver(S \ {x})

\* the delegated calls outstanding on the entries of array s
Outstanding(s) == PendingOver({s[i] : i \in DOMAIN s})

\* the shape of lastEvent; kind is "none", "call", "resolved" or "rejected"
Event(kind, target, index, view, after, outstanding) ==
    [kind |-> kind, target |-> target, index |-> index, view |-> view,
     after |-> after, outstanding |-> outstanding]

NoEvent == Event("none", 0, 0, << >>, 0, 0)

\* pool.callMethod(...): sort, take the first entry, count it, delegate.
\* lastEvent keeps what the call selected on: the counts in array order before
\* the sort (view) and the place of its target in that order (index).
PoolCallMethod ==
    LET order  == CurrentPool
        sorted == SortByTasks(order, tasks)
    IN  IF sorted = << >>
        THEN \* target is undefined: target.tasks++ throws, the call rejects
             /\ lastEvent' = Event("rejected", 0, 0, << >>, 0, 0)
             /\ UNCHANGED <<wvars, poolPromise, poolStatus, poolRuns, arrays, poolArr,
                            loops, tasks, pcalls>>
        ELSE LET target == Head(sorted) IN
             /\ PendingOver(Members) < MaxOutstanding
             /\ arrays' = [arrays EXCEPT ![poolArr] = sorted]
             /\ tasks'  = [tasks EXCEPT ![target] = @ + 1]
             /\ pcalls' = IF hstate[target] = 0
                          THEN \* callMethod of a member without state rejects
                               [pcalls EXCEPT ![target].doomed = @ + 1]
                          ELSE [pcalls EXCEPT ![target].sent = @ + 1]
             /\ lastEvent' =
                   Event("call", target,
                         CHOOSE i \in 1..Len(order) : order[i] = target,
                         [i \in 1..Len(order) |-> tasks[order[i]]],
                         tasks'[target],
                         Outstanding(order))
             /\ UNCHANGED <<wvars, poolPromise, poolStatus, poolRuns, poolArr, loops>>

\* a delegated WorkerHelper.callMethod on member h settled (ok: it resolved);
\* finally runs target.tasks--
PoolCallSettle(h, ok) ==
    /\ h \in Members
    /\ IF ok THEN pcalls[h].sent > 0 ELSE PendingOn(h) > 0
    /\ \E kind \in {"sent", "doomed"} :
          /\ pcalls[h][kind] > 0
          /\ ok => kind = "sent"
          /\ pcalls' = [pcalls EXCEPT ![h][kind] = @ - 1]
    /\ tasks'  = [tasks EXCEPT ![h] = TasksAfterSettle(@, ok)]
    /\ lastEvent' = Event(IF ok THEN "resolved" ELSE "rejected", h, 0, << >>, 0, 0)
    /\ UNCHANGED <<wvars, poolPromise, poolStatus, poolRuns, arrays, poolArr, loops>>

\* pool.disconnect(): disconnect every member, empty the array, forget the promise
PoolDisconnect ==
    /\ poolRuns > 0
    /\ LET ms == {CurrentPool[i] : i \in DOMAIN CurrentPool} IN
       /\ hstate' = [h \in Helpers |-> IF h \in ms THEN 0 ELSE hstate[h]]
       /\ ctl'    = [h \in Helpers |->
                        IF h \in ms /\ hstate[h] # 0 THEN Append(ctl[h], 0) ELSE ctl[h]]
       /\ epoch'  = [h \in Helpers |-> IF h \in ms THEN epoch[h] + 1 ELSE epoch[h]]
       /\ listeners' = [h \in Helpers |->
                           IF h \in ms THEN Removed(listeners[h], helperCtl[h])
                           ELSE listeners[h]]
       /\ helperCtl' = [h \in Helpers |->
                           IF h \in ms THEN helperCtl[h] + 1 ELSE helperCtl[h]]
    /\ arrays'      = [arrays EXCEPT ![poolArr] = << >>]
    /\ poolPromise' = 0
    /\ (poolPromise # 0 \/ CurrentPool # << >>)
    /\ UNCHANGED <<initPromise, initStatus, initRuns, connects, workerUp, initCalls,
                   calls, pagehides, poolStatus, poolRuns, poolArr, loops, tasks, pcalls,
                   lastEvent>>

InitPool ==
    /\ poolPromise = 0
    /\ poolStatus  = [r \in 1..MaxPoolInits |-> "none"]
    /\ poolRuns    = 0
    /\ arrays      = [r \in 0..MaxPoolInits |-> << >>]
    /\ poolArr     = 0
    /\ loops       = [r \in 1..MaxPoolInits |-> NotLooping]
    /\ tasks       = [h \in Members |-> 0]
    /\ pcalls      = [h \in Members |-> [sent |-> 0, doomed |-> 0]]
    /\ lastEvent   = NoEvent

(***************************************************************************)
(* The SharedWorker blob election: SharedWorkerHelper.createWorkerBlob     *)
(* (ver = 2) and WorkerHelper.#createSharedWorkerBlobURL (ver = 3), over   *)
(* the lock `SharedWorker:${uri}` and the BroadcastChannel of that name.   *)
(* Every host makes one attempt.                                           *)
(***************************************************************************)
Hosts == 1..NumHosts

\* the data of a ping: channel.postMessage(null)
Null == 0

\* `blob` before anything was assigned to it
NoBlob == -1

\* URL.createObjectURL(new Blob(...)): every call makes a URL of its own
CreateObjectURL(h) == h

\* the promise of an attempt: what it resolved with or the reason it was rejected
\* with; quiet tells whether a timeout came with nothing left in flight
Pending        == [status |-> "pending",  value |-> NoBlob, reason |-> "", quiet |-> FALSE]
Resolved(b)    == [status |-> "resolved", value |-> b,      reason |-> "", quiet |-> FALSE]
Rejected(e, q) == [status |-> "rejected", value |-> NoBlob, reason |-> e,  quiet |-> q]

\* what the attempt rejects with when its timer fires first
TimeoutReason(v) == IF v = 2 THEN "Failed to fetch blob: timeout" ELSE "timeout"

\* what #createWorkerBlobURL rejects with when the preamble cannot be fetched
FetchError == "TypeError: Failed to fetch"

Message(h, d) == [from |-> h, data |-> d]

\* channel.postMessage(d) on the channel of host h: one message event for every
\* other channel of the name that is open now
PostMessage(box, h, d) ==
    [g \in Hosts |-> IF g # h /\ channel[g] = "open"
                     THEN box[g] \cup {Message(h, d)}
                     ELSE box[g]]

\* mutant: the lock is handed out whether or not somebody holds it
Available_Always == TRUE

\* { ifAvailable: true }: the request is granted only if the lock is free and
\* nobody waits for it; otherwise the callback gets null
Available == held = {} /\ lockQueue = << >>

\* the lock manager drops the requests of h
Dequeue(q, h) == SelectSeq(q, LAMBDA x : x # h)

\* mutant: the resolve handler settles the promise again
ResolveActs_Always(h) == onmessage[h] = "resolve"

\* channel.onmessage = (e) => resolve(e.data) acts while the promise is pending
ResolveActs(h) == pc[h] = "waiting"

\* mutant: the successor makes a blob URL of its own
SuccessorBlob_Regenerated(h) == CreateObjectURL(h)

\* the takeover callback closes over the blob the contender received
SuccessorBlob(h) == blob[h]

\* mutant: the lock-holding callback returns and the lock is released
KeptLocks_Returned(h) == held \ {h}

\* the lock-holding callback returns a promise that stays pending (ver 2) or
\* waits for the abort event (ver 3): the lock stays with h
KeptLocks(h) == held

\* nothing is on its way to or from host h and whoever holds the lock answers pings
Quiet(h) ==
    /\ inbox[h] = {}
    /\ \A g \in Hosts : \A m \in inbox[g] : m.from # h
    /\ \A g \in held : pc[g] \in {"leading", "successor"}

\* a host constructs the helper and starts its attempt.  ver 3 opens the channel
\* before it asks for the lock, ver 2 inside the lock callback.  The hosts are
\* numbered in the order they start.
Start(h, v) ==
    /\ pc[h] = "idle"
    /\ \A g \in 1..(h - 1) : pc[g] # "idle"
    /\ v \in {2, 3}
    /\ ver \in {0, v}
    /\ ver' = v
    /\ pc'  = [pc EXCEPT ![h] = "requested"]
    /\ channel' = IF v = 3 THEN [channel EXCEPT ![h] = "open"] ELSE channel
    /\ leaderAtStart' = [leaderAtStart EXCEPT
                            ![h] = IF held = {} THEN 0 ELSE CHOOSE g \in held : TRUE]
    /\ UNCHANGED <<onmessage, inbox, held, lockQueue, timer, blob, generated, posted,
                   outcome, late>>

\* the lock manager decides the ifAvailable request and the callback runs up to
\* its first await: `if (lock)` starts the blob, else the contender pings
LockDecide(h) ==
    /\ pc[h] = "requested"
    /\ channel' = [channel EXCEPT ![h] = "open"]
    /\ IF Available
       THEN /\ held' = held \cup {h}
            /\ pc'   = [pc EXCEPT ![h] = "generating"]
            /\ UNCHANGED <<onmessage, inbox, timer>>
       ELSE /\ pc'        = [pc EXCEPT ![h] = "waiting"]
            /\ onmessage' = [onmessage EXCEPT ![h] = "resolve"]
            /\ inbox'     = PostMessage(inbox, h, Null)
            /\ timer'     = [timer EXCEPT ![h] = "armed"]
            /\ UNCHANGED held
    /\ UNCHANGED <<ver, lockQueue, blob, generated, posted, outcome, leaderAtStart, late>>

\* the leader's blob URL is ready: the reply handler is installed, the attempt
\* resolves, the callback's promise keeps the lock
GenerateDone(h) ==
    /\ pc[h] = "generating"
    /\ blob'      = [blob EXCEPT ![h] = CreateObjectURL(h)]
    /\ generated' = [generated EXCEPT ![h] = TRUE]
    /\ onmessage' = [onmessage EXCEPT ![h] = "reply"]
    /\ outcome'   = [outcome EXCEPT ![h] = Resolved(CreateObjectURL(h))]
    /\ pc'        = [pc EXCEPT ![h] = "leading"]
    /\ held'      = KeptLocks(h)
    /\ UNCHANGED <<ver, channel, inbox, lockQueue, timer, posted, leaderAtStart, late>>

\* the preamble could not be fetched: the callback rejects and the lock is
\* released.  ver 3 passes the error on and closes the channel; ver 2 has no
\* handler for it and the attempt stays pending.
GenerateFail(h) ==
    /\ pc[h] = "generating"
    /\ held' = held \ {h}
    /\ IF ver = 3
       THEN /\ outcome' = [outcome EXCEPT ![h] = Rejected(FetchError, FALSE)]
            /\ pc'      = [pc EXCEPT ![h] = "closing"]
       ELSE /\ pc'      = [pc EXCEPT ![h] = "done"]
            /\ UNCHANGED outcome
    /\ UNCHANGED <<ver, channel, onmessage, inbox, lockQueue, timer, blob, generated,
                   posted, leaderAtStart, late>>

\* a message event is dispatched on the channel of host h
Deliver(h, m) ==
    /\ m \in inbox[h]
    /\ IF channel[h] = "open" /\ onmessage[h] = "reply"
       THEN \* () => channel.postMessage(blob)
            /\ inbox'  = [PostMessage(inbox, h, blob[h]) EXCEPT ![h] = inbox[h] \ {m}]
            /\ posted' = IF generated[h] THEN posted
                          ELSE [posted EXCEPT ![h] = @ \cup {blob[h]}]
            /\ UNCHANGED <<pc, blob, outcome, lockQueue, timer, late>>
       ELSE IF channel[h] = "open" /\ onmessage[h] = "resolve" /\ ResolveActs(h)
       THEN \* (e) => resolve(e.data), then the takeover request is made
            /\ inbox'     = [inbox EXCEPT ![h] = @ \ {m}]
            /\ blob'      = [blob EXCEPT ![h] = m.data]
            /\ outcome'   = [outcome EXCEPT ![h] = Resolved(m.data)]
            /\ lockQueue' = Append(lockQueue, h)
            /\ pc'        = [pc EXCEPT ![h] = "queued"]
            /\ timer'     = [timer EXCEPT ![h] = IF @ = "armed" THEN "spent" ELSE @]
            /\ UNCHANGED <<posted, late>>
       ELSE \* no handler, or a promise that is settled already
            /\ inbox' = [inbox EXCEPT ![h] = @ \ {m}]
            /\ late'  = [late EXCEPT ![h] = @ \/ (/\ channel[h] = "open"
                                                   /\ onmessage[h] = "resolve"
                                                   /\ outcome[h].status = "rejected"
                                                   /\ m.data # Null)]
            /\ UNCHANGED <<pc, blob, outcome, lockQueue, timer, posted>>
    /\ UNCHANGED <<ver, channel, onmessage, held, generated, leaderAtStart>>

\* setTimeout(() => reject('timeout'), 1000) fires while the wait is pending.
\* ver 3 rejects through the outer request promise, whose finally is then due;
\* ver 2 rejects in its catch and leaves the channel as it is.
TimerFire(h) ==
    /\ timer[h] = "armed"
    /\ pc[h] = "waiting"
    /\ timer'   = [timer EXCEPT ![h] = "fired"]
    /\ outcome' = [outcome EXCEPT ![h] = Rejected(TimeoutReason(ver), Quiet(h))]
    /\ pc'      = [pc EXCEPT ![h] = IF ver = 3 THEN "closing" ELSE "done"]
    /\ UNCHANGED <<ver, channel, onmessage, inbox, held, lockQueue, blob, generated,
                   posted, leaderAtStart, late>>

\* the lock is free: the lock manager grants the oldest waiting request
LockGrant(h) ==
    /\ held = {}
    /\ lockQueue # << >>
    /\ Head(lockQueue) = h
    /\ held'      = held \cup {h}
    /\ lockQueue' = Tail(lockQueue)
    /\ pc'        = [pc EXCEPT ![h] = "granted"]
    /\ UNCHANGED <<ver, channel, onmessage, inbox, timer, blob, generated, posted,
                   outcome, leaderAtStart, late>>

\* the takeover callback runs: the contender answers pings from now on
TakeoverRun(h) ==
    /\ pc[h] = "granted"
    /\ onmessage' = [onmessage EXCEPT ![h] = "reply"]
    /\ blob'      = [blob EXCEPT ![h] = SuccessorBlob(h)]
    /\ pc'        = [pc EXCEPT ![h] = "successor"]
    /\ held'      = KeptLocks(h)
    /\ UNCHANGED <<ver, channel, inbox, lockQueue, timer, generated, posted,
                   outcome, leaderAtStart, late>>

\* ver 3, helper.disconnect(): #abortCtl.abort().  A lock kept by the abort
\* listener is released, a waiting takeover request is withdrawn; either way the
\* outer request promise settles and its finally is due.
AbortElection(h) ==
    /\ ver = 3
    /\ pc[h] \in {"leading", "successor", "queued"}
    /\ held'      = held \ {h}
    /\ lockQueue' = Dequeue(lockQueue, h)
    /\ pc'        = [pc EXCEPT ![h] = "closing"]
    /\ UNCHANGED <<ver, channel, onmessage, inbox, timer, blob, generated, posted,
                   outcome, leaderAtStart, late>>

\* ver 3: .finally(() => channel.close())
ChannelClose(h) ==
    /\ pc[h] = "closing"
    /\ channel' = [channel EXCEPT ![h] = "closed"]
    /\ inbox'   = [inbox EXCEPT ![h] = {}]
    /\ pc'      = [pc EXCEPT ![h] = "done"]
    /\ UNCHANGED <<ver, onmessage, held, lockQueue, timer, blob, generated, posted,
                   outcome, leaderAtStart, late>>

\* the host (tab) goes away: its locks, requests, channel and timers go with it
Terminate(h) ==
    /\ pc[h] \notin {"idle", "gone"}
    /\ pc'        = [pc EXCEPT ![h] = "gone"]
    /\ held'      = held \ {h}
    /\ lockQueue' = Dequeue(lockQueue, h)
    /\ channel'   = [channel EXCEPT ![h] = "closed"]
    /\ onmessage' = [onmessage EXCEPT ![h] = "none"]
    /\ inbox'     = [inbox EXCEPT ![h] = {}]
    /\ timer'     = [timer EXCEPT ![h] = IF @ = "armed" THEN "off" ELSE @]
    /\ UNCHANGED <<ver, blob, generated, posted, outcome, leaderAtStart, late>>

InitElect ==
    /\ ver           = 0
    /\ pc            = [h \in Hosts |-> "idle"]
    /\ channel       = [h \in Hosts |-> "none"]
    /\ onmessage     = [h \in Hosts |-> "none"]
    /\ inbox         = [h \in Hosts |-> {}]
    /\ held          = {}
    /\ lockQueue     = << >>
    /\ timer         = [h \in Hosts |-> "off"]
    /\ blob          = [h \in Hosts |-> NoBlob]
    /\ generated     = [h \in Hosts |-> FALSE]
    /\ posted        = [h \in Hosts |-> {}]
    /\ outcome       = [h \in Hosts |-> Pending]
    /\ leaderAtStart = [h \in Hosts |-> 0]
    /\ late          = [h \in Hosts |-> FALSE]

(***************************************************************************)
(* The fetch proxy.  pver = 2: the context broadcasts {id, uri, options}   *)
(* on `WorkerFetchProxy:${uri}`, every host's requestChannel handler asks   *)
(* for the lock of the pair and the holder fetches and posts {type:'file'} *)
(* to its own target.  pver = 3: the context sends the request to one      *)
(* client over the control channel and the host answers on the port that   *)
(* came with it.  All requests are for one request uri.                    *)
(***************************************************************************)
ProxyHosts == 1..NumProxyHosts

\* the context behind host h: the one SharedWorker, or h's own Worker
ContextOf(h) == IF pshared THEN 0 ELSE h

Contexts == IF pshared THEN {0} ELSE ProxyHosts

Requests == 1..MaxFetches

\* the requests context c has forwarded so far: fetchId of c
FetchId(c) == Cardinality({r \in DOMAIN fetches : fetches[r].ctx = c})

\* the hosts a request of context c is sent to
Receivers(c) ==
    IF pver = 2
    THEN \* fetchChannel.postMessage: every requestChannel of that name
         ProxyHosts
    ELSE \* const client = clients[0]
         IF pshared THEN {(rotation % NumProxyHosts) + 1} ELSE {c}

\* the helpers are initialized: one class, shared or not
ProxySetup(v, sh) ==
    /\ pver = 0
    /\ pver' = v
    /\ pshared' = sh
    /\ UNCHANGED <<fetches, requestChannel, proxy, abortCtl, responseChannel,
                   proxyLock, proxyWait, toContext, thrown, rotation>>

\* globalThis.fetch of the bootstrap code in context c forwards a request
ContextFetch(c) ==
    /\ pver # 0
    /\ c \in Contexts
    /\ Len(fetches) < MaxFetches
    /\ LET r == Len(fetches) + 1 IN
       /\ fetches' = Append(fetches,
             [ctx |-> c, id |-> FetchId(c), status |-> "pending", responses |-> 0,
              queued |-> pver = 2])
       /\ requestChannel' = [h \in ProxyHosts |->
             IF h \in Receivers(c) THEN Append(requestChannel[h], r)
             ELSE requestChannel[h]]
    /\ rotation' = IF pver = 3 /\ pshared THEN (rotation + 1) % NumProxyHosts ELSE rotation
    /\ UNCHANGED <<pver, pshared, proxy, abortCtl, responseChannel, proxyLock,
                   proxyWait, toContext, thrown>>

\* the request message reaches host h.  pver = 2: requestChannel.onmessage
\* opens the responseChannel and asks for the lock; pver = 3: port1.onmessage
\* calls fetch
HostReceive(h) ==
    /\ requestChannel[h] # << >>
    /\ LET r == Head(requestChannel[h]) IN
       /\ requestChannel' = [requestChannel EXCEPT ![h] = Tail(@)]
       /\ IF pver = 2
          THEN /\ proxy' = [proxy EXCEPT ![h][r] = "queued"]
               /\ proxyWait' = Append(proxyWait, <<h, r>>)
          ELSE /\ proxy' = [proxy EXCEPT ![h][r] = "fetching"]
               /\ UNCHANGED proxyWait
    /\ UNCHANGED <<pver, pshared, fetches, abortCtl, responseChannel, proxyLock,
                   toContext, thrown, rotation>>

\* mutant: the lock callback returns at once and the lock is given back
KeepsLock_No == FALSE

\* the callback returns a promise that resolves in the finally of the fetch
KeepsLock == TRUE

\* the lock manager grants the free lock to the oldest request: the callback
\* runs with the lock and calls fetch
ProxyLockGrant ==
    /\ proxyLock = << >>
    /\ proxyWait # << >>
    /\ LET w == Head(proxyWait) IN
       /\ proxy' = [proxy EXCEPT ![w[1]][w[2]] = "fetching"]
       /\ proxyLock' = IF KeepsLock THEN w ELSE << >>
    /\ proxyWait' = Tail(proxyWait)
    /\ UNCHANGED <<pver, pshared, fetches, requestChannel, abortCtl,
                   responseChannel, toContext, thrown, rotation>>

\* the handlers other than (h, r) whose responseChannel is open and whose lock
\* request has not settled: who gets what (h, r) posts on its own.  (The
\* channels are never closed; a null for a handler that is through aborts a
\* controller nothing listens to, and is left out.)
OtherChannels(h, r) ==
    {w \in ProxyHosts \X Requests :
        w # <<h, r>> /\ proxy[w[1]][w[2]] \in {"queued", "fetching"}}

\* the response message a host posts: on the port of request r (r = 0: to the
\* context at large, {type: 'file', id, response})
FileMessage(r, id, status) == [r |-> r, id |-> id, status |-> status]

\* the fetch of handler (h, r) settles; ok: with a response.
\* pver = 2: the response or {status: 0} goes to this.target, null goes out on
\* the responseChannel, the callback's promise resolves.
\* pver = 3: the response goes out on the port, or the handler's promise rejects.
FetchSettle(h, r, ok) ==
    /\ proxy[h][r] = "fetching"
    /\ IF pver = 2
       THEN /\ toContext' = [toContext EXCEPT
                  ![ContextOf(h)] = Append(@, FileMessage(0, fetches[r].id, IF ok THEN 200 ELSE 0))]
            /\ responseChannel' = [g \in ProxyHosts |-> [q \in Requests |->
                  IF <<g, q>> \in OtherChannels(h, r)
                  THEN responseChannel[g][q] + 1 ELSE responseChannel[g][q]]]
            /\ proxy' = [proxy EXCEPT ![h][r] = IF ok THEN "posted" ELSE "reported"]
            /\ proxyLock' = IF proxyLock = <<h, r>> THEN << >> ELSE proxyLock
            /\ UNCHANGED thrown
       ELSE /\ IF ok
               THEN /\ toContext' = [toContext EXCEPT
                          ![fetches[r].ctx] = Append(@, FileMessage(r, fetches[r].id, 200))]
                    /\ proxy' = [proxy EXCEPT ![h][r] = "posted"]
                    /\ UNCHANGED thrown
               ELSE /\ proxy' = [proxy EXCEPT ![h][r] = "threw"]
                    /\ thrown' = thrown + 1
                    /\ UNCHANGED toContext
            /\ UNCHANGED <<responseChannel, proxyLock>>
    /\ UNCHANGED <<pver, pshared, fetches, requestChannel, abortCtl, proxyWait, rotation>>

\* mutant: the lock request is made without the signal
AbortDequeues_No(w) == FALSE

\* { signal: abortCtl.signal }: aborting rejects the request that still waits
AbortDequeues(w) == \E i \in DOMAIN proxyWait : proxyWait[i] = w

\* the lock queue without request w
WithoutRequest(q, w) == SelectSeq(q, LAMBDA x : x # w)

\* a null reaches the responseChannel of handler (h, r): abortCtl.abort(); the
\* lock request that still waits rejects and .catch(() => {}) swallows it
ResponseChannelMessage(h, r) ==
    /\ responseChannel[h][r] > 0
    /\ responseChannel' = [responseChannel EXCEPT ![h][r] = @ - 1]
    /\ abortCtl' = [abortCtl EXCEPT ![h][r] = TRUE]
    /\ IF AbortDequeues(<<h, r>>)
       THEN /\ proxyWait' = WithoutRequest(proxyWait, <<h, r>>)
            /\ proxy' = [proxy EXCEPT ![h][r] = "swallowed"]
       ELSE UNCHANGED <<proxyWait, proxy>>
    /\ UNCHANGED <<pver, pshared, fetches, requestChannel, proxyLock, toContext,
                   thrown, rotation>>

\* the requests of context c queued under id: fetchQueue.get(id)
Queued(c, id) ==
    {r \in DOMAIN fetches : fetches[r].ctx = c /\ fetches[r].id = id /\ fetches[r].queued}

\* fetchQueue.delete(fetchId): the key the callback queued under id deletes
DeletedKey(c, id) == FetchId(c)

\* how a request stands after a response with that status reached its entry
Settled(req, status) ==
    [req EXCEPT
        !.responses = @ + 1,
        !.status = IF @ # "pending" THEN @
                   ELSE IF pver = 3 \/ status # 0 THEN "resolved" ELSE "rejected"]

\* a response message reaches context c.  pver = 2: self.onmessage, type 'file':
\* fetchQueue.get(id)?.(response); pver = 3: the port's onmessage resolves
ContextReceive(c) ==
    /\ c \in Contexts
    /\ toContext[c] # << >>
    /\ LET m == Head(toContext[c])
           hit == IF pver = 2 THEN Queued(c, m.id) ELSE {m.r}
           del == IF pver = 2 /\ hit # {} THEN Queued(c, DeletedKey(c, m.id)) ELSE {}
       IN  fetches' = [r \in DOMAIN fetches |->
                          LET f == IF r \in hit THEN Settled(fetches[r], m.status)
                                   ELSE fetches[r]
                          IN  IF r \in del THEN [f EXCEPT !.queued = FALSE] ELSE f]
    /\ toContext' = [toContext EXCEPT ![c] = Tail(@)]
    /\ UNCHANGED <<pver, pshared, requestChannel, proxy, abortCtl, responseChannel,
                   proxyLock, proxyWait, thrown, rotation>>

(***************************************************************************)
(* lib/lock.js: requestLock over the file lock used where navigator.locks  *)
(* is missing.  The requests are for one name and in exclusive mode; they  *)
(* may come from different processes.                                      *)
(***************************************************************************)
Requesters == 1..NumRequesters

\* controller.abort(reason)
AbortReason == "test abort"

LockPending == [status |-> "pending", name |-> "", message |-> ""]

LockResolved == [status |-> "resolved", name |-> "", message |-> ""]

\* new DOMException(signal.reason, 'AbortError')
DOMException(reason) == [status |-> "rejected", name |-> "AbortError", message |-> reason]

\* throw new Error('The ifAvailable option is not supported in this environment.')
NotSupported ==
    [status |-> "threw", name |-> "Error",
     message |-> "The ifAvailable option is not supported in this environment."]

\* the exclusive lock on the file request r opened is held by no other request
LockFree(r) ==
    \A g \in Requesters \ {r} : ~(lock[g] = "granted" /\ file[g] = file[r])

\* requestLock(name, options, callback) up to the point it returns its promise.
\* With ifAvailable it throws; with a signal that is aborted already the
\* fallback throws an AbortError; else the file is opened, created if there is
\* none, and the lock is asked for.
RequestLock(r, opt) ==
    /\ request[r] = "idle"
    /\ \A g \in 1..(r - 1) : request[g] # "idle"
    /\ opt \in {"none", "signal", "aborted", "ifAvailable"}
    /\ IF opt = "ifAvailable"
       THEN /\ result'  = [result EXCEPT ![r] = NotSupported]
            /\ request' = [request EXCEPT ![r] = "done"]
            /\ UNCHANGED <<lockFilePath, inodes, file, lock, signal, abortedAt>>
       ELSE IF opt = "aborted"
       THEN /\ signal'    = [signal EXCEPT ![r] = "aborted"]
            /\ abortedAt' = [abortedAt EXCEPT ![r] = "before"]
            /\ result'    = [result EXCEPT ![r] = DOMException(AbortReason)]
            /\ request'   = [request EXCEPT ![r] = "done"]
            /\ UNCHANGED <<lockFilePath, inodes, file, lock>>
       ELSE /\ signal'  = [signal EXCEPT ![r] = IF opt = "signal" THEN "live" ELSE "none"]
            /\ IF lockFilePath = 0
               THEN /\ inodes'       = inodes + 1
                    /\ lockFilePath' = inodes + 1
               ELSE UNCHANGED <<inodes, lockFilePath>>
            /\ file'    = [file EXCEPT ![r] = lockFilePath']
            /\ lock'    = [lock EXCEPT ![r] = "pending"]
            /\ request' = [request EXCEPT ![r] = "racing"]
            /\ UNCHANGED <<abortedAt, result>>
    /\ UNCHANGED callback

\* file.lock() resolves and lock.then(() => callback({ mode, name })) runs the
\* callback, whether or not the race has been decided by an abort.  A lock
\* granted to a file that was closed meanwhile is not kept.
LockGranted(r) ==
    /\ lock[r] = "pending"
    /\ LockFree(r)
    /\ lock'     = [lock EXCEPT ![r] = IF request[r] = "done" THEN "released" ELSE "granted"]
    /\ callback' = [callback EXCEPT ![r] = "running"]
    /\ UNCHANGED <<lockFilePath, inodes, file, request, signal, abortedAt, result>>

\* the promise of the callback settles; if the race is undecided it is decided
\* now and .finally starts with Deno.remove(lockFilePath)
CallbackSettled(r) ==
    /\ callback[r] = "running"
    /\ callback' = [callback EXCEPT ![r] = "settled"]
    /\ IF request[r] = "racing"
       THEN /\ result'  = [result EXCEPT ![r] = LockResolved]
            /\ request' = [request EXCEPT ![r] = "removing"]
       ELSE UNCHANGED <<result, request>>
    /\ UNCHANGED <<lockFilePath, inodes, file, lock, signal, abortedAt>>

\* controller.abort(reason): the listener rejects the race if it is undecided,
\* be the request asking for a free lock, waiting for a lock another request
\* holds, or running its callback
SignalAbort(r) ==
    /\ signal[r] = "live"
    /\ signal'    = [signal EXCEPT ![r] = "aborted"]
    /\ abortedAt' = [abortedAt EXCEPT
                        ![r] = IF request[r] = "racing" /\ callback[r] = "none"
                               THEN IF LockFree(r) THEN "asking" ELSE "waiting"
                               ELSE IF request[r] = "racing" THEN "running" ELSE "after"]
    /\ IF request[r] = "racing"
       THEN /\ result'  = [result EXCEPT ![r] = DOMException(AbortReason)]
            /\ request' = [request EXCEPT ![r] = "removing"]
       ELSE UNCHANGED <<result, request>>
    /\ UNCHANGED <<lockFilePath, inodes, file, lock, callback>>

\* await Deno.remove(lockFilePath).catch(() => {}); file.unlock(); file.close().
\* The remove unlinks whatever file is at the path, or fails where an open file
\* cannot be removed; a lock that is still asked for when the file is closed
\* is given up by the runtime or stays asked for.
RemoveDone(r, removed, kept) ==
    /\ request[r] = "removing"
    /\ removed \in BOOLEAN
    /\ kept \in BOOLEAN
    /\ lockFilePath = 0 => removed
    /\ lock[r] # "pending" => kept
    /\ lockFilePath' = IF removed THEN 0 ELSE lockFilePath
    /\ lock' = [lock EXCEPT ![r] = IF @ = "granted" THEN "released"
                                   ELSE IF @ = "pending" /\ ~kept THEN "cancelled"
                                   ELSE @]
    /\ request' = [request EXCEPT ![r] = "done"]
    /\ UNCHANGED <<inodes, file, callback, signal, abortedAt, result>>

InitLock ==
    /\ lockFilePath = 0
    /\ inodes       = 0
    /\ file         = [r \in Requesters |-> 0]
    /\ lock         = [r \in Requesters |-> "none"]
    /\ request      = [r \in Requesters |-> "idle"]
    /\ callback     = [r \in Requesters |-> "none"]
    /\ signal       = [r \in Requesters |-> "none"]
    /\ abortedAt    = [r \in Requesters |-> "never"]
    /\ result       = [r \in Requesters |-> LockPending]

(***************************************************************************)
(* lib/job-queue.js: one Queue and its jobs.  JavaScript runs one piece of *)
(* code at a time: while a task is in its synchronous part (the stack is   *)
(* not empty) only that task acts.                                         *)
(***************************************************************************)
Jobs == 1..NumJobs

Runs == 1..MaxRuns

NoRun == [status |-> "none", pos |-> 0, i |-> 0, ran |-> 0, job |-> 0, frame |-> FALSE]

\* #queue.size
Size(s) == Cardinality({x \in DOMAIN s : s[x] # 0})

\* #queue.add(job): a job that is in the Set keeps its place
SetAdd(s, j) == IF \E x \in DOMAIN s : s[x] = j THEN s ELSE Append(s, j)

\* #queue.delete(job)
SetDelete(s, j) == [x \in DOMAIN s |-> IF s[x] = j THEN 0 ELSE s[x]]

\* `for (const job of this.#queue)` continued after entry p, up to the next
\* call of a task or the end of the loop: the iterator sees the entries added
\* since, an aborted job is deleted without a call
\* mutant: the loop does not look at #disposed
LoopBreaks_Never == FALSE

\* if (this.#disposed) break
LoopBreaks == disposed

RECURSIVE Iterate(_, _, _)
Iterate(s, p, proc) ==
    IF p + 1 > Len(s)
    THEN [queue |-> s, pos |-> p, job |-> 0, processing |-> proc]
    ELSE IF s[p + 1] = 0
    THEN Iterate(s, p + 1, proc)
    ELSE IF LoopBreaks
    THEN [queue |-> s, pos |-> p, job |-> 0, processing |-> proc]
    ELSE IF jobAborted[s[p + 1]]
    THEN Iterate(SetDelete(s, s[p + 1]), p + 1, s[p + 1])
    ELSE [queue |-> s, pos |-> p + 1, job |-> s[p + 1], processing |-> s[p + 1]]

\* this.#promise ??= ...: the right-hand side is evaluated when #promise is null
NoPromise == promise = 0

\* process() on the queue s.  If it starts the loop, the loop runs on the spot
\* up to the call of the first task, and #promise is assigned only when that
\* call has returned.
Process(s) ==
    IF disposed \/ Size(s) = 0 \/ ~NoPromise
    THEN /\ queue' = s
         /\ UNCHANGED <<processing, promise, runs, nruns, stack>>
    ELSE LET it == Iterate(s, 0, processing)
             k  == nruns + 1
         IN  /\ nruns < MaxRuns
             /\ nruns'      = k
             /\ queue'      = it.queue
             /\ processing' = it.processing
             /\ IF it.job = 0
                THEN /\ runs'    = [runs EXCEPT ![k] = [NoRun EXCEPT !.status = "returned",
                                                                     !.pos = it.pos]]
                     /\ promise' = k
                     /\ UNCHANGED stack
                ELSE /\ runs'  = [runs EXCEPT ![k] = [status |-> "sync", pos |-> it.pos,
                                                      i |-> 0, ran |-> 1, job |-> it.job,
                                                      frame |-> TRUE]]
                     /\ stack' = Append(stack, k)
                     /\ UNCHANGED promise

\* the body of add(job)
AddJob(j) ==
    /\ adds < MaxAdds
    /\ adds' = adds + 1
    /\ IF processing = j
       THEN UNCHANGED <<queue, processing, promise, runs, nruns, stack>>
       ELSE Process(SetAdd(queue, j))
    /\ UNCHANGED <<disposed, jobAborted, lastProcess>>

\* queue.add(job) called while no task is in its synchronous part
Add(j) ==
    /\ stack = << >>
    /\ AddJob(j)

\* queue.add(job) called by a task before its first await
TaskAdd(j) ==
    /\ stack # << >>
    /\ AddJob(j)

\* the task reaches its first await or returns: its promise is with the loop.
\* If the loop was started by this call of process(), #promise is assigned now.
TaskAwait ==
    /\ stack # << >>
    /\ LET k == stack[Len(stack)]
       IN  /\ stack'   = SubSeq(stack, 1, Len(stack) - 1)
           /\ runs'    = [runs EXCEPT ![k].status = "awaiting", ![k].frame = FALSE]
           /\ promise' = IF runs[k].frame THEN k ELSE promise
    /\ UNCHANGED <<queue, processing, disposed, jobAborted, nruns, adds, lastProcess>>

\* queue.process() called from outside: `return 0` when disposed, else
\* `return this.#promise ?? Promise.resolve(0)` after the loop was started if
\* it had to be
ProcessCall ==
    /\ stack = << >>
    /\ Process(queue)
    /\ lastProcess' = IF disposed THEN 0
                      ELSE IF nruns' # nruns THEN nruns'
                      ELSE promise
    /\ UNCHANGED <<disposed, jobAborted, adds>>

\* the promise of the task run k awaits settles.  Fulfilled: i++, the job is
\* deleted and the loop goes on to the next task or to its end.  Rejected: the
\* loop's promise rejects and the .then callback is passed over.
TaskSettled(k, ok) ==
    /\ stack = << >>
    /\ runs[k].status = "awaiting"
    /\ IF ok
       THEN LET it == Iterate(SetDelete(queue, runs[k].job), runs[k].pos, processing)
            IN  /\ queue'      = it.queue
                /\ processing' = it.processing
                /\ IF it.job = 0
                   THEN /\ runs' = [runs EXCEPT ![k].status = "returned",
                                                ![k].pos = it.pos,
                                                ![k].i = @ + 1,
                                                ![k].job = 0]
                        /\ UNCHANGED stack
                   ELSE /\ runs' = [runs EXCEPT ![k].status = "sync",
                                                ![k].pos = it.pos,
                                                ![k].i = @ + 1,
                                                ![k].ran = @ + 1,
                                                ![k].job = it.job]
                        /\ stack' = << k >>
       ELSE /\ runs' = [runs EXCEPT ![k].status = "rejected"]
            /\ UNCHANGED <<queue, processing, stack>>
    /\ UNCHANGED <<promise, disposed, jobAborted, nruns, adds, lastProcess>>

\* .then((i) => { this.#processing = null; this.#promise = null; return i })
ThenCallback(k) ==
    /\ stack = << >>
    /\ runs[k].status = "returned"
    /\ runs'       = [runs EXCEPT ![k].status = "done"]
    /\ processing' = 0
    /\ promise'    = 0
    /\ UNCHANGED <<queue, disposed, jobAborted, nruns, stack, adds, lastProcess>>

\* the job is an entry of #queue
InQueue(s, j) == \E x \in DOMAIN s : s[x] = j

\* queue.delete(job), be the job in the queue or not
Delete(j) ==
    /\ stack = << >>
    /\ jobAborted' = IF processing = j THEN [jobAborted EXCEPT ![j] = TRUE] ELSE jobAborted
    /\ queue'   = SetDelete(queue, j)
    /\ UNCHANGED <<processing, promise, disposed, runs, nruns, stack, adds, lastProcess>>

\* job.abort()
JobAbort(j) ==
    /\ stack = << >>
    /\ ~jobAborted[j]
    /\ jobAborted' = [jobAborted EXCEPT ![j] = TRUE]
    /\ UNCHANGED <<queue, processing, promise, disposed, runs, nruns, stack, adds,
                   lastProcess>>

\* queue.dispose()
Dispose ==
    /\ stack = << >>
    /\ ~disposed
    /\ jobAborted'  = IF processing # 0 THEN [jobAborted EXCEPT ![processing] = TRUE] ELSE jobAborted
    /\ disposed' = TRUE
    /\ UNCHANGED <<queue, processing, promise, runs, nruns, stack, adds, lastProcess>>

InitQueue ==
    /\ queue      = << >>
    /\ processing = 0
    /\ promise    = 0
    /\ disposed   = FALSE
    /\ jobAborted    = [j \in Jobs |-> FALSE]
    /\ runs       = [k \in Runs |-> NoRun]
    /\ nruns      = 0
    /\ stack      = << >>
    /\ adds       = 0
    /\ lastProcess = -1

(***************************************************************************)
(* LRUCache (lru-cache): a Map in insertion order and a capacity.          *)
(***************************************************************************)
Keys == 1..NumKeys

Values == 1..NumValues

Entry(k, v) == [key |-> k, value |-> v]

\* the keys of the Map m
KeysOf(m) == {m[x].key : x \in DOMAIN m}

\* Map.prototype.has
MapHas(m, k) == k \in KeysOf(m)

\* Map.prototype.get of a key the Map has
MapGet(m, k) == (CHOOSE x \in DOMAIN m : m[x].key = k)

\* Map.prototype.set: a key the Map has keeps its place and takes the value,
\* a new key goes to the end
MapSet(m, k, v) ==
    IF MapHas(m, k)
    THEN [x \in DOMAIN m |-> IF m[x].key = k THEN Entry(k, v) ELSE m[x]]
    ELSE Append(m, Entry(k, v))

\* Map.prototype.delete
MapDelete(m, k) == SelectSeq(m, LAMBDA e : e.key # k)

\* for (const [key, value] of entries) this.cache.set(key, value)
RECURSIVE SetAll(_, _)
SetAll(m, entries) ==
    IF entries = << >> THEN m
    ELSE SetAll(MapSet(m, Head(entries).key, Head(entries).value), Tail(entries))

\* the entry lists of at most n entries
EntryLists(n) ==
    UNION {[1..len -> {Entry(k, v) : k \in Keys, v \in Values}] : len \in 0..n}

\* mutant: the newest entry is taken for the eviction
First_Newest(m) == m[Len(m)].key

\* this.cache.keys().next().value
First(m) == m[1].key

\* key k becomes the most recently touched
Touch(t, k) == Append(SelectSeq(t, LAMBDA x : x # k), k)

\* new LRUCache({ capacity, entries }) with capacity >= 1 and at most capacity entries
Construct(cap, entries) ==
    /\ capacity = 0
    /\ cap \in 1..MaxCapacity
    /\ entries \in EntryLists(cap)
    /\ capacity' = cap
    /\ cache'    = SetAll(<< >>, entries)
    /\ UNCHANGED <<touched, lastEvicted>>

\* get(key): null for a key the cache has not; else the entry is deleted and
\* set again, which moves it to the end
Get(k) ==
    /\ capacity # 0
    /\ IF ~MapHas(cache, k)
       THEN UNCHANGED <<cache, touched>>
       ELSE /\ cache'   = MapSet(MapDelete(cache, k), k, cache[MapGet(cache, k)].value)
            /\ touched' = Touch(touched, k)
    /\ UNCHANGED <<capacity, lastEvicted>>

\* put(key, value): the key is deleted first; if the cache is full then, its
\* first entry is deleted; the entry is set
Put(k, v) ==
    /\ capacity # 0
    /\ LET m == MapDelete(cache, k)
       IN  IF Len(m) = capacity
           THEN /\ cache'       = MapSet(MapDelete(m, First(m)), k, v)
                /\ lastEvicted' = First(m)
                /\ touched'     = Touch(SelectSeq(touched, LAMBDA x : x # First(m)), k)
           ELSE /\ cache'   = MapSet(m, k, v)
                /\ touched' = Touch(touched, k)
                /\ UNCHANGED lastEvicted
    /\ UNCHANGED capacity

\* delete(key)
CacheDelete(k) ==
    /\ capacity # 0
    /\ cache'   = MapDelete(cache, k)
    /\ touched' = SelectSeq(touched, LAMBDA x : x # k)
    /\ UNCHANGED <<capacity, lastEvicted>>

InitCache ==
    /\ cache       = << >>
    /\ capacity    = 0
    /\ touched     = << >>
    /\ lastEvicted = 0

InitProxy ==
    /\ pver = 0
    /\ pshared = FALSE
    /\ fetches = << >>
    /\ requestChannel = [h \in ProxyHosts |-> << >>]
    /\ proxy = [h \in ProxyHosts |-> [r \in Requests |-> "none"]]
    /\ abortCtl = [h \in ProxyHosts |-> [r \in Requests |-> FALSE]]
    /\ responseChannel = [h \in ProxyHosts |-> [r \in Requests |-> 0]]
    /\ proxyLock = << >>
    /\ proxyWait = << >>
    /\ toContext = [c \in 0..NumProxyHosts |-> << >>]
    /\ thrown = 0
    /\ rotation = 0

(***************************************************************************)
(* The shared context: self.onmessage / client.onmessage of the preamble   *)
(* and the helpers that connect to it                                      *)
(***************************************************************************)

Clients == 1..NumClients

\* mutant: the splice always starts at the last element
IndexOf_Last(cl, c) == Len(cl) - 1

\* clients.indexOf(client): the first index (from 0) that holds c, or -1
IndexOf(cl, c) ==
    IF \E i \in DOMAIN cl : cl[i] = c
    THEN (CHOOSE i \in DOMAIN cl : cl[i] = c /\ \A j \in 1..(i - 1) : cl[j] # c) - 1
    ELSE -1

\* clients.splice(start, 1): a negative start counts from the end
Splice(cl, start) ==
    LET from == IF start < 0
                THEN (IF Len(cl) + start < 0 THEN 0 ELSE Len(cl) + start)
                ELSE (IF start > Len(cl) THEN Len(cl) ELSE start)
        n    == IF from < Len(cl) THEN 1 ELSE 0
    IN  [i \in 1..(Len(cl) - n) |-> IF i <= from THEN cl[i] ELSE cl[i + n]]

\* clients.push(clients.shift()): shift() of an empty array is undefined
Rotate(cl) == IF cl = << >> THEN <<0>> ELSE Append(Tail(cl), Head(cl))

NoMessage == [type |-> "none", from |-> 0, before |-> << >>, after |-> << >>]

\* the init body of helper c reaches this.#target.postMessage({ type: 'connect' })
HelperConnect(c) ==
    /\ helper[c] = "new"
    /\ helper' = [helper EXCEPT ![c] = "ready"]
    /\ connectsSent' = connectsSent \cup {c}
    /\ UNCHANGED <<clients, closing, loaded, portQ, listening, methodCalls, served,
                   lastMessage>>

\* helper c calls a method: a 'method' message on port1
HelperCall(c) ==
    /\ helper[c] = "ready"
    /\ methodCalls[c] < MaxClientCalls
    /\ methodCalls' = [methodCalls EXCEPT ![c] = @ + 1]
    /\ portQ' = [portQ EXCEPT ![c] = Append(@, "method")]
    /\ UNCHANGED <<clients, closing, loaded, helper, connectsSent, listening, served,
                   lastMessage>>

\* helper c disconnects: a 'disconnect' message on port1, then the ports close
HelperDisconnect(c) ==
    /\ helper[c] = "ready"
    /\ helper' = [helper EXCEPT ![c] = "gone"]
    /\ portQ' = [portQ EXCEPT ![c] = Append(@, "disconnect")]
    /\ UNCHANGED <<clients, closing, loaded, connectsSent, listening, methodCalls,
                   served, lastMessage>>

\* self.onmessage = ({ ports: [client] }) => {...}
SelfMessage(c) ==
    /\ ~closing
    /\ c \in connectsSent
    /\ connectsSent' = connectsSent \ {c}
    /\ clients' = Append(clients, c)
    /\ loaded' = TRUE
    /\ listening' = [listening EXCEPT ![c] = TRUE]
    /\ UNCHANGED <<closing, helper, portQ, methodCalls, served, lastMessage>>

\* client.onmessage = async ({ data, ports: [port] }) => {...}
ClientMessage(c) ==
    /\ ~closing
    /\ listening[c]
    /\ portQ[c] # << >>
    /\ portQ' = [portQ EXCEPT ![c] = Tail(@)]
    /\ IF Head(portQ[c]) = "disconnect"
       THEN /\ listening' = [listening EXCEPT ![c] = FALSE]
            /\ clients' = Splice(clients, IndexOf(clients, c))
            /\ closing' = (Len(clients') = 0)
            /\ UNCHANGED served
       ELSE /\ served' = [served EXCEPT ![c] = @ + 1]
            /\ UNCHANGED <<listening, clients, closing>>
    /\ lastMessage' = [type |-> Head(portQ[c]), from |-> c, before |-> clients,
                       after |-> clients']
    /\ UNCHANGED <<loaded, helper, connectsSent, methodCalls>>

\* globalThis.fetch of the context, called by the module
ContextFetchShared ==
    /\ ~closing
    /\ loaded
    /\ clients' = Rotate(clients)
    /\ UNCHANGED <<closing, loaded, helper, connectsSent, portQ, listening, methodCalls,
                   served, lastMessage>>

InitShared ==
    /\ clients = << >>
    /\ closing = FALSE
    /\ loaded = FALSE
    /\ helper = [c \in Clients |-> "new"]
    /\ connectsSent = {}
    /\ portQ = [c \in Clients |-> << >>]
    /\ listening = [c \in Clients |-> FALSE]
    /\ methodCalls = [c \in Clients |-> 0]
    /\ served = [c \in Clients |-> 0]
    /\ lastMessage = NoMessage

Init == InitW /\ InitHook /\ InitPool /\ InitElect /\ InitProxy /\ InitLock /\ InitQueue /\ InitCache
          /\ InitShared

\* what the actions of one subsystem leave alone
notWHook    == <<pvars, evars, xvars, lvars, qvars, cvars, svars>>
notW        == <<hvars, notWHook>>
notPoolHook == <<evars, xvars, lvars, qvars, cvars, svars>>
notPool     == <<hvars, notPoolHook>>
notElect == <<wvars, hvars, pvars, xvars, lvars, qvars, cvars, svars>>
notProxy == <<wvars, hvars, pvars, evars, lvars, qvars, cvars, svars>>
notLock == <<wvars, hvars, pvars, evars, xvars, qvars, cvars, svars>>
notQueue == <<wvars, hvars, pvars, evars, xvars, lvars, cvars, svars>>
notCache == <<wvars, hvars, pvars, evars, xvars, lvars, qvars, svars>>
notShared == <<wvars, hvars, pvars, evars, xvars, lvars, qvars, cvars>>

NextW ==
    \/ InitCall(Standalone) /\ UNCHANGED notWHook
    \/ InitResume(Standalone) /\ UNCHANGED notWHook
    \/ InitFail(Standalone) /\ UNCHANGED notW
    \/ \E i \in 1..MaxInitCalls : Observe(i) /\ UNCHANGED notW
    \/ Disconnect(Standalone) /\ UNCHANGED notWHook
    \/ PageHide(Standalone) /\ UNCHANGED notWHook
    \/ \E m \in Methods, sig0 \in {"none", "live", "aborted"}, cloneable \in BOOLEAN :
          \E reason \in (IF sig0 = "aborted" THEN AbortReasons ELSE {""}) :
             CallMethod(Standalone, m, sig0, reason, cloneable) /\ UNCHANGED notW
    \/ \E c \in 1..MaxCalls, reason \in AbortReasons : Abort(c, reason) /\ UNCHANGED notW
    \/ \E c \in 1..MaxCalls : ReplyDeliver(c) /\ UNCHANGED notW
    \/ WorkerReceive(Standalone) /\ UNCHANGED notW
    \/ \E c \in 1..MaxCalls : NoticeDeliver(c) /\ UNCHANGED notW
    \/ \E c \in 1..MaxCalls : WorkerFinish(c) /\ UNCHANGED notW

SpecW == Init /\ [][NextW]_vars

\* the event loops run: the worker takes the messages queued for it, a method
\* that was invoked returns or throws, and a message posted on an open path is
\* delivered
FairW ==
    /\ WF_vars(WorkerReceive(Standalone) /\ UNCHANGED notW)
    /\ \A c \in 1..MaxCalls :
          /\ WF_vars(WorkerFinish(c) /\ UNCHANGED notW)
          /\ WF_vars(NoticeDeliver(c) /\ UNCHANGED notW)
          /\ WF_vars(ReplyDeliver(c) /\ UNCHANGED notW)

SpecWFair == Init /\ [][NextW]_vars /\ FairW

NextPool ==
    \/ PoolInit /\ UNCHANGED notPoolHook
    \/ \E r \in 1..MaxPoolInits : PoolInitStep(r) /\ UNCHANGED notPoolHook
    \/ \E h \in Members : InitResume(h) /\ UNCHANGED notWHook
    \/ \E h \in Members : InitFail(h) /\ UNCHANGED notW
    \/ PoolCallMethod /\ UNCHANGED notPool
    \/ \E h \in Members, ok \in BOOLEAN : PoolCallSettle(h, ok) /\ UNCHANGED notPool
    \/ PoolDisconnect /\ UNCHANGED notPoolHook

SpecPool == Init /\ [][NextPool]_vars

\* every delegated call eventually settles
FairPool ==
    \A h \in Members :
        WF_vars(\E ok \in BOOLEAN : PoolCallSettle(h, ok) /\ UNCHANGED notPool)

SpecPoolFair == Init /\ [][NextPool]_vars /\ FairPool

NextElect ==
    \/ \E h \in Hosts, v \in {2, 3} : Start(h, v) /\ UNCHANGED notElect
    \/ \E h \in Hosts : LockDecide(h) /\ UNCHANGED notElect
    \/ \E h \in Hosts : GenerateDone(h) /\ UNCHANGED notElect
    \/ \E h \in Hosts : GenerateFail(h) /\ UNCHANGED notElect
    \/ \E h \in Hosts : \E m \in inbox[h] : Deliver(h, m) /\ UNCHANGED notElect
    \/ \E h \in Hosts : TimerFire(h) /\ UNCHANGED notElect
    \/ \E h \in Hosts : LockGrant(h) /\ UNCHANGED notElect
    \/ \E h \in Hosts : TakeoverRun(h) /\ UNCHANGED notElect
    \/ \E h \in Hosts : AbortElection(h) /\ UNCHANGED notElect
    \/ \E h \in Hosts : ChannelClose(h) /\ UNCHANGED notElect
    \/ \E h \in Hosts : Terminate(h) /\ UNCHANGED notElect

SpecElect == Init /\ [][NextElect]_vars

\* the lock manager grants a free lock that is asked for, and the event loop of
\* a host runs the lock callback that is due
FairElect ==
    \A h \in Hosts :
        /\ WF_vars(LockGrant(h) /\ UNCHANGED notElect)
        /\ WF_vars(TakeoverRun(h) /\ UNCHANGED notElect)

SpecElectFair == Init /\ [][NextElect]_vars /\ FairElect

NextProxy ==
    \/ \E v \in {2, 3}, sh \in BOOLEAN : ProxySetup(v, sh) /\ UNCHANGED notProxy
    \/ \E c \in 0..NumProxyHosts : ContextFetch(c) /\ UNCHANGED notProxy
    \/ \E h \in ProxyHosts : HostReceive(h) /\ UNCHANGED notProxy
    \/ ProxyLockGrant /\ UNCHANGED notProxy
    \/ \E h \in ProxyHosts, r \in Requests, ok \in BOOLEAN :
          FetchSettle(h, r, ok) /\ UNCHANGED notProxy
    \/ \E h \in ProxyHosts, r \in Requests :
          ResponseChannelMessage(h, r) /\ UNCHANGED notProxy
    \/ \E c \in 0..NumProxyHosts : ContextReceive(c) /\ UNCHANGED notProxy

SpecProxy == Init /\ [][NextProxy]_vars

\* the event loops and the lock manager run, and a fetch that was started settles
FairProxy ==
    /\ \A h \in ProxyHosts : WF_vars(HostReceive(h) /\ UNCHANGED notProxy)
    /\ WF_vars(ProxyLockGrant /\ UNCHANGED notProxy)
    /\ \A h \in ProxyHosts, r \in Requests :
          /\ WF_vars(\E ok \in BOOLEAN : FetchSettle(h, r, ok) /\ UNCHANGED notProxy)
          /\ WF_vars(ResponseChannelMessage(h, r) /\ UNCHANGED notProxy)
    /\ \A c \in 0..NumProxyHosts : WF_vars(ContextReceive(c) /\ UNCHANGED notProxy)

SpecProxyFair == Init /\ [][NextProxy]_vars /\ FairProxy

NextLock ==
    \/ \E r \in Requesters, opt \in {"none", "signal", "aborted", "ifAvailable"} :
            RequestLock(r, opt) /\ UNCHANGED notLock
    \/ \E r \in Requesters : LockGranted(r) /\ UNCHANGED notLock
    \/ \E r \in Requesters : CallbackSettled(r) /\ UNCHANGED notLock
    \/ \E r \in Requesters : SignalAbort(r) /\ UNCHANGED notLock
    \/ \E r \in Requesters, removed, kept \in BOOLEAN :
            RemoveDone(r, removed, kept) /\ UNCHANGED notLock

SpecLock == Init /\ [][NextLock]_vars

NextQueue ==
    \/ \E j \in Jobs : Add(j) /\ UNCHANGED notQueue
    \/ \E j \in Jobs : TaskAdd(j) /\ UNCHANGED notQueue
    \/ TaskAwait /\ UNCHANGED notQueue
    \/ ProcessCall /\ UNCHANGED notQueue
    \/ \E k \in Runs, ok \in BOOLEAN : TaskSettled(k, ok) /\ UNCHANGED notQueue
    \/ \E k \in Runs : ThenCallback(k) /\ UNCHANGED notQueue
    \/ \E j \in Jobs : Delete(j) /\ UNCHANGED notQueue
    \/ \E j \in Jobs : JobAbort(j) /\ UNCHANGED notQueue
    \/ Dispose /\ UNCHANGED notQueue

SpecQueue == Init /\ [][NextQueue]_vars

\* the event loop runs what is due: a task called reaches its first await, the
\* promise of a task settles one way or the other, a .then callback whose
\* promise is fulfilled runs
FairQueue ==
    /\ WF_vars(TaskAwait /\ UNCHANGED notQueue)
    /\ \A k \in Runs :
          /\ WF_vars((\E ok \in BOOLEAN : TaskSettled(k, ok)) /\ UNCHANGED notQueue)
          /\ WF_vars(ThenCallback(k) /\ UNCHANGED notQueue)

SpecQueueFair == Init /\ [][NextQueue]_vars /\ FairQueue

NextCache ==
    \/ \E cap \in 1..MaxCapacity : \E entries \in EntryLists(cap) :
            Construct(cap, entries) /\ UNCHANGED notCache
    \/ \E k \in Keys : Get(k) /\ UNCHANGED notCache
    \/ \E k \in Keys, v \in Values : Put(k, v) /\ UNCHANGED notCache
    \/ \E k \in Keys : CacheDelete(k) /\ UNCHANGED notCache

SpecCache == Init /\ [][NextCache]_vars

NextShared ==
    \/ \E c \in Clients : HelperConnect(c) /\ UNCHANGED notShared
    \/ \E c \in Clients : HelperCall(c) /\ UNCHANGED notShared
    \/ \E c \in Clients : HelperDisconnect(c) /\ UNCHANGED notShared
    \/ \E c \in Clients : SelfMessage(c) /\ UNCHANGED notShared
    \/ \E c \in Clients : ClientMessage(c) /\ UNCHANGED notShared
    \/ ContextFetchShared /\ UNCHANGED notShared

SpecShared == Init /\ [][NextShared]_vars

(***************************************************************************)
(* Claims on SpecW                                                         *)
(***************************************************************************)

\* init() calls i and j were made on the same helper before the first init
\* completed, with no disconnect() between them
SameRound(i, j) ==
    /\ initCalls[i].h = initCalls[j].h
    /\ initCalls[i].early /\ initCalls[j].early
    /\ initCalls[i].epoch = initCalls[j].epoch

\* C1: init() calls made on one helper before the first completes, with no
\* disconnect in between, all return the same promise, the worker is created
\* once for them, and the callers that read the state see the same handle.
C1_InitMemoized ==
    \A i, j \in DOMAIN initCalls :
        SameRound(i, j) =>
            /\ initCalls[i].promise = initCalls[j].promise
            /\ initCalls[i].runs = 1 /\ initCalls[j].runs = 1
            /\ (initCalls[i].seen > 0 /\ initCalls[j].seen > 0
                    => initCalls[i].seen = initCalls[j].seen)

C1_Witness ==
    \E i, j \in DOMAIN initCalls :
        /\ i < j /\ SameRound(i, j)
        /\ initCalls[i].seen > 0 /\ initCalls[j].seen = initCalls[i].seen
        /\ initRuns[initCalls[i].h] = 1

\* C2: a call whose signal is aborted after the request was sent and before
\* the reply was delivered is rejected with the AbortError that carries the
\* abort reason, one cancellation notice went out on its ephemeral channel,
\* and a reply that arrives afterwards changes nothing.
C2_AbortRejects ==
    \A c \in DOMAIN calls :
        calls[c].abortedPending =>
            /\ calls[c].status = "rejected"
            /\ calls[c].value = AbortError(calls[c].reason)
            /\ calls[c].notices = 1
            /\ calls[c].got = << >>

C2_Witness ==
    \E c \in DOMAIN calls :
        /\ calls[c].abortedPending /\ calls[c].lateReply
        /\ calls[c].wsent # << >> /\ calls[c].wsent[1].ok
        /\ calls[c].status = "rejected"
        /\ calls[c].value = AbortError("test abort")

\* C3: a call that is not cancelled settles by the one reply the remote sent on
\* its ephemeral channel: {ok: true, result} resolves it with that result,
\* {ok: false, error} rejects it with that very error value.
C3_ReplyDecides ==
    \A c \in DOMAIN calls :
        (calls[c].sig # "aborted" /\ calls[c].sent /\ calls[c].status # "pending") =>
            /\ Len(calls[c].wsent) = 1
            /\ calls[c].got = calls[c].wsent
            /\ LET r == calls[c].wsent[1] IN
               IF r.ok THEN calls[c].status = "resolved" /\ calls[c].value = r.result
                       ELSE calls[c].status = "rejected" /\ calls[c].value = r.error

C3_Witness ==
    \E c \in DOMAIN calls :
        /\ calls[c].sig # "aborted" /\ calls[c].sent
        /\ calls[c].status = "rejected"
        /\ calls[c].value = Err("Error", "Test error")
        /\ calls[c].wsent = <<[ok |-> FALSE, result |-> Undefined,
                               error |-> Err("Error", "Test error")]>>

(***************************************************************************)
(* Claims on SpecPool                                                      *)
(***************************************************************************)

\* the least element of a non-empty sequence of numbers
Least(s) == CHOOSE n \in {s[i] : i \in DOMAIN s} : \A i \in DOMAIN s : n <= s[i]

RECURSIVE SumSeq(_)
SumSeq(s) == IF s = << >> THEN 0 ELSE Head(s) + SumSeq(Tail(s))

\* C4: the task count of every pool entry is the number of calls delegated to
\* it that have not settled; it is never negative, and it is 0 for every entry
\* once all calls have settled.
C4_TaskAccounting ==
    \A h \in Members : tasks[h] = PendingOn(h) /\ tasks[h] >= 0

\* a delegated call was rejected and, with nothing outstanding, the counts of
\* the initialized pool are back at 0
C4_Witness ==
    /\ lastEvent.kind = "rejected" /\ lastEvent.target \in Members
    /\ hstate[lastEvent.target] # 0
    /\ poolPromise # 0 /\ poolStatus[poolPromise] = "resolved"
    /\ \A h \in Members : tasks[h] = 0 /\ PendingOn(h) = 0

\* C5: every pool.callMethod() picks an entry whose count is least among the
\* entries at that moment, the first such in the array's order, and counts it
\* in the same step: the counts it selects on already include every delegated
\* call still outstanding.
C5_LeastLoaded ==
    lastEvent.kind = "call" =>
        /\ lastEvent.view[lastEvent.index] = Least(lastEvent.view)
        /\ \A i \in 1..(lastEvent.index - 1) : lastEvent.view[i] > Least(lastEvent.view)
        /\ lastEvent.after = lastEvent.view[lastEvent.index] + 1
        /\ tasks[lastEvent.target] = lastEvent.after
        /\ SumSeq(lastEvent.view) = lastEvent.outstanding

\* counts [2, 0, 1]: the call went to the entry at index 1 (the second one)
C5_Witness ==
    /\ lastEvent.kind = "call"
    /\ lastEvent.view = <<2, 0, 1>>
    /\ lastEvent.index = 2
    /\ poolPromise # 0 /\ poolStatus[poolPromise] = "resolved"

(***************************************************************************)
(* Claims on SpecElect                                                     *)
(***************************************************************************)

\* host h holds the lock as the leader of step 2 or as a successor
Leader(h) == pc[h] \in {"generating", "leading", "granted", "successor"}

\* host h has left: it disconnected or its tab went away
Left(h) == pc[h] \in {"closing", "done", "gone"}

\* C6: in every reachable state at most one host is leader, and the leader is
\* the one host the lock is granted to, also after a leader has left.
C6_AtMostOneLeader ==
    /\ Cardinality(held) <= 1
    /\ Cardinality({h \in Hosts : Leader(h)}) <= 1
    /\ \A h \in Hosts : Leader(h) <=> h \in held

\* the leader left and, of the two contenders that waited, one leads
C6_Witness ==
    \E a, b, c \in Hosts :
        /\ generated[a] /\ Left(a)
        /\ pc[b] = "successor" /\ held = {b}
        /\ pc[c] = "queued" /\ c # b

\* C7: with two hosts, B starting its attempt while A holds the lock: B never
\* creates a blob of its own, what B's attempt resolves with is A's blob, and
\* the attempt does not fail with A leading and nothing left in flight.
C7_SecondHostGetsReference ==
    \A a, b \in Hosts :
        (/\ a # b /\ leaderAtStart[b] = a /\ pc[a] = "leading"
         /\ \A c \in Hosts \ {a, b} : pc[c] = "idle")
        => /\ ~generated[b]
           /\ outcome[b].status = "resolved" => outcome[b].value = blob[a]
           /\ ~(outcome[b].status = "rejected" /\ outcome[b].quiet)

\* C8: whatever an attempt resolves with is the blob a leader created, never
\* the null of another contender's ping.
C8_ContendersGetLeaderReference ==
    \A h \in Hosts :
        outcome[h].status = "resolved" =>
            /\ outcome[h].value # Null
            /\ \E g \in Hosts : generated[g] /\ outcome[h].value = CreateObjectURL(g)

\* host b received a reference, waits first in line and the lock is free
NextInLine(b) ==
    /\ pc[b] = "queued" /\ outcome[b].value \in Hosts
    /\ held = {} /\ lockQueue # << >> /\ Head(lockQueue) = b

\* C9: a contender that received the leader's reference and is first in line
\* when the leader leaves comes to hold the lock (unless it leaves itself); as
\* successor it has created no blob, and it answers every ping with the
\* reference it received, the one the original leader created.
C9_Succession ==
    /\ \A b \in Hosts : NextInLine(b) ~> (pc[b] = "successor" \/ Left(b))
    /\ [](\A b \in Hosts :
            (pc[b] \in {"granted", "successor"} /\ outcome[b].value \in Hosts) =>
                /\ ~generated[b]
                /\ blob[b] = outcome[b].value
                /\ posted[b] \subseteq {outcome[b].value}
                /\ \E a \in Hosts : generated[a] /\ blob[b] = CreateObjectURL(a))

\* A led, B received A's reference and took over when A left; C, which started
\* under B, was answered with A's reference
C9_Witness ==
    \E a, b, c \in Hosts :
        /\ a # b /\ b # c /\ a # c
        /\ generated[a] /\ Left(a)
        /\ pc[b] = "successor" /\ outcome[b] = Resolved(CreateObjectURL(a))
        /\ posted[b] = {CreateObjectURL(a)}
        /\ leaderAtStart[c] = b /\ outcome[c] = Resolved(CreateObjectURL(a))

DisconnectNotices(h) ==
    Cardinality({i \in DOMAIN ctl[h] : ctl[h][i] = 0})
        + (IF workerUp[h] = "closed" THEN 1 ELSE 0)

\* init() call i was made after an init had completed and a disconnect() had
\* taken the handle away, and no disconnect() came after it
AfterDisconnect(i) ==
    /\ ~initCalls[i].early
    /\ DisconnectNotices(initCalls[i].h) > 0
    /\ initCalls[i].epoch = epoch[initCalls[i].h]

\* C11: an init() made after a completed init and a disconnect() starts a new
\* init body, and once the promise it returned is resolved the helper holds a
\* handle again (so that callMethod works).
C11_ReinitCreatesHandle ==
    \A i \in DOMAIN initCalls :
        (AfterDisconnect(i) /\ initStatus[initCalls[i].h] = "resolved") =>
            /\ initCalls[i].runs = 2
            /\ hstate[initCalls[i].h] # 0

\* C12: a callMethod() made while the helper holds no handle (before init has
\* completed, or after disconnect) is rejected with the not-initialized error
\* that reading the handle throws, and nothing is sent for it: no channel is
\* opened, no message is queued for the worker, the worker never sees it.
C12_NotInitialized ==
    /\ \A c \in DOMAIN calls :
          calls[c].state = 0 =>
              /\ calls[c].status = "rejected"
              /\ calls[c].value = NotInitializedError
              /\ ~calls[c].sent /\ ~calls[c].port1
              /\ calls[c].wphase = "none" /\ calls[c].notices = 0
              /\ \A h \in Helpers : \A k \in DOMAIN ctl[h] : ctl[h][k] # c
    /\ \A h \in Helpers : StateThrows(h) <=> hstate[h] = 0

\* one call was rejected so before init completed, or after a disconnect that
\* took the handle of an initialized helper away
C12_Witness ==
    \E c \in DOMAIN calls :
        /\ calls[c].state = 0
        /\ calls[c].value = NotInitializedError
        /\ DisconnectNotices(calls[c].h) = 1
        /\ initStatus[calls[c].h] = "resolved"

\* C13: every callMethod() promise eventually settles: it resolves, or it rejects
\* with the not-initialized error, a remote error or a cancellation error; so
\* does a call that awaits its reply when disconnect() is called.
C13_EveryCallSettles ==
    \A c \in 1..MaxCalls :
        (c \in DOMAIN calls /\ calls[c].status = "pending")
            ~> (c \in DOMAIN calls /\ calls[c].status # "pending")

\* the endpoints of the ephemeral channel of a call that are still open: port1
\* until the finally of #asyncPostMessage closes it, port2 until the worker
\* closes the port it was sent (or its peer port1 is closed under it); a port2
\* that was never sent stays with the host, entangled with port1
EndpointsOpen(call) ==
    (IF call.port1 THEN {"port1"} ELSE {})
        \cup (IF call.port1 /\ (~call.sent \/ call.wphase # "done") THEN {"port2"} ELSE {})

\* C14: when a call that opened an ephemeral channel has settled, both
\* endpoints of the channel are closed, whatever the exit path: success, error
\* reply, cancellation, or a failure of the initial send.
C14_EndpointsClosed ==
    \A c \in DOMAIN calls :
        (calls[c].state # 0 /\ calls[c].status # "pending") =>
            EndpointsOpen(calls[c]) = {}

\* new Error('Failed to call method')
DispatchFailure == Err("Error", "Failed to call method")

\* C15: a callMethod() whose initial send fails is rejected with the generic
\* error 'Failed to call method', never with the error the send threw.
C15_SendFailureWrapped ==
    \A c \in DOMAIN calls :
        (calls[c].state # 0 /\ ~calls[c].sent) =>
            /\ calls[c].status = "rejected"
            /\ calls[c].value = DispatchFailure

\* C16: the worker sends at most one reply per request, at most one
\* cancellation notice goes out per call, a call that a cancellation rejected
\* has taken no reply, and a call that has settled keeps its outcome.
C16_OneOutcome ==
    /\ [](\A c \in DOMAIN calls :
            /\ Len(calls[c].wsent) <= 1
            /\ Len(calls[c].got) <= 1
            /\ calls[c].notices <= 1
            /\ calls[c].abortedPending =>
                  calls[c].status = "rejected" /\ calls[c].got = << >>)
    /\ [][\A c \in DOMAIN calls :
            calls[c].status # "pending" =>
                /\ calls'[c].status = calls[c].status
                /\ calls'[c].value = calls[c].value]_vars

\* a call was cancelled while it waited, the worker saw the notice and sent its
\* one reply (the AbortError), and that reply came to a closed port
C16_Witness ==
    \E c \in DOMAIN calls :
        /\ calls[c].abortedPending /\ calls[c].lateReply
        /\ calls[c].notices = 1 /\ calls[c].wabort = "test abort"
        /\ Len(calls[c].wsent) = 1 /\ ~calls[c].wsent[1].ok
        /\ calls[c].got = << >> /\ calls[c].toHost = << >>

\* C17: disconnect() on a helper without a handle (never initialized, or
\* disconnected already) changes nothing: the helper stays without a handle and
\* no message is posted; the 'disconnect' messages a helper has posted never
\* outnumber the handles it has had.
C17_DisconnectIdempotent ==
    /\ [](\A h \in Helpers : DisconnectNotices(h) <= connects[h])
    /\ [][\A h \in Helpers :
            epoch'[h] # epoch[h] =>
                /\ hstate'[h] = 0
                /\ initPromise'[h] = initPromise[h] /\ initStatus'[h] = initStatus[h]
                /\ workerUp'[h] = workerUp[h] /\ calls' = calls
                /\ IF hstate[h] = 0
                   THEN ctl'[h] = ctl[h]
                   ELSE ctl'[h] = Append(ctl[h], 0)]_vars

\* disconnect() was called twice on an initialized helper: one message went out
C17_Witness ==
    /\ epoch[Standalone] = 2
    /\ connects[Standalone] = 1 /\ DisconnectNotices(Standalone) = 1
    /\ hstate[Standalone] = 0

(***************************************************************************)
(* Claims on SpecPool: init, disconnect, fairness                          *)
(***************************************************************************)

\* the members init run r created
MembersOf(r) == {Member(r, k) : k \in 1..PoolCount}

\* run r is the pool's current init: no disconnect() has come after it
CurrentRun(r) == r \in 1..MaxPoolInits /\ poolPromise = r

\* C18 (created and sequential): the pool of a current init run has exactly
\* PoolCount entries, at most one of its members is initializing at a time, and
\* no member's init body runs twice.
C18_Sequential ==
    \A r \in 1..MaxPoolInits :
        CurrentRun(r) =>
            /\ Len(arrays[r]) = PoolCount
            /\ {arrays[r][i] : i \in DOMAIN arrays[r]} = MembersOf(r)
            /\ Cardinality({h \in MembersOf(r) : initStatus[h] = "pending"}) <= 1
            /\ \A h \in MembersOf(r) : initRuns[h] <= 1

\* C18: pool.init() creates PoolCount helpers and initializes them one after
\* the other, and the promise it returned is resolved only when every one of
\* them is initialized.
C18_PoolInit ==
    /\ C18_Sequential
    /\ \A r \in 1..MaxPoolInits :
          (CurrentRun(r) /\ poolStatus[r] = "resolved") =>
              \A h \in MembersOf(r) : initStatus[h] = "resolved" /\ hstate[h] # 0

\* pool.disconnect() has been called on the pool init run r built
Disconnected(r) == r \in 1..poolRuns /\ poolPromise # r

\* C19: once pool.disconnect() has returned, every helper the pool created has
\* had disconnect() called on it and none of them holds a handle, then or
\* later, also when the disconnect came while init was still initializing.
C19_PoolDisconnect ==
    \A r \in 1..MaxPoolInits :
        Disconnected(r) =>
            \A h \in MembersOf(r) : epoch[h] >= 1 /\ hstate[h] = 0

\* pool.callMethod() has just delegated a call to member h
Selected(h) == lastEvent.kind = "call" /\ lastEvent.target = h

\* member h is an entry of the pool's array
InPool(h) == \E i \in DOMAIN CurrentPool : CurrentPool[i] = h

\* the pool's init has resolved and every entry of its array holds a handle
PoolReady ==
    /\ poolPromise # 0 /\ poolStatus[poolPromise] = "resolved"
    /\ CurrentPool # << >>
    /\ \A i \in DOMAIN CurrentPool : hstate[CurrentPool[i]] # 0

\* C20: when pool.callMethod() is called again and again on an initialized pool
\* and every delegated call settles, every member of the pool is selected again
\* and again.
C20_NoStarvation ==
    \A h \in Members :
        ([]<>(lastEvent.kind = "call") /\ <>[](PoolReady /\ InPool(h))) => []<>Selected(h)

(***************************************************************************)
(* Claims on SpecProxy                                                     *)
(***************************************************************************)

\* the handlers whose fetch is in progress
Fetching == {w \in ProxyHosts \X Requests : proxy[w[1]][w[2]] = "fetching"}

C22_EveryRequestAnswered ==
    /\ [](\A r \in DOMAIN fetches : fetches[r].responses <= 1)
    /\ \A r \in Requests :
          (r \in DOMAIN fetches) ~> (r \in DOMAIN fetches /\ fetches[r].status # "pending")

\* C23: a handler whose fetch failed has posted a response with status 0 for
\* the request, and no error has escaped a host's handler.
C23_FailureReported ==
    /\ thrown = 0
    /\ \A h \in ProxyHosts, r \in Requests :
          proxy[h][r] \in {"none", "queued", "fetching", "posted", "reported", "swallowed"}

\* C24: every message that reaches a handler's responseChannel aborts the
\* handler's AbortController; a lock request that is aborted while it waits
\* leaves the queue, its handler never holds the lock and never fetches, and
\* no error escapes the host.
C24_PreemptionSwallowed ==
    /\ [](pver = 2 =>
            /\ thrown = 0
            /\ \A h \in ProxyHosts, r \in Requests :
                  /\ proxy[h][r] = "queued" => ~abortCtl[h][r]
                  /\ proxy[h][r] = "swallowed" =>
                        /\ abortCtl[h][r]
                        /\ proxyLock # <<h, r>>
                        /\ \A i \in DOMAIN proxyWait : proxyWait[i] # <<h, r>>)
    /\ [][\A h \in ProxyHosts, r \in Requests :
            /\ responseChannel'[h][r] < responseChannel[h][r] => abortCtl'[h][r]
            /\ proxy[h][r] = "swallowed" => proxy'[h][r] = "swallowed"]_vars

\* one host fetched and posted the response, and its null took the other
\* host's request for the same fetch out of the lock queue
C24_Witness ==
    \E r \in Requests, h, g \in ProxyHosts :
        /\ proxy[h][r] = "posted"
        /\ proxy[g][r] = "swallowed" /\ abortCtl[g][r]
        /\ proxyLock = << >> /\ proxyWait = << >>

(***************************************************************************)
(* Claims on SpecElect: succession                                         *)
(***************************************************************************)

\* host h has asked for the blocking (takeover) lock
AskedTakeover(h) ==
    \/ pc[h] \in {"queued", "granted", "successor"}
    \/ \E i \in DOMAIN lockQueue : lockQueue[i] = h

\* C25: a host asks for the blocking lock only after its wait has received a
\* reference (a blob URL), and a contender whose wait timed out never asks for
\* it, never holds the lock and never answers pings.
C25_SuccessionAfterReference ==
    \A h \in Hosts :
        /\ AskedTakeover(h) =>
              /\ blob[h] \in {CreateObjectURL(g) : g \in Hosts}
              /\ outcome[h] = Resolved(blob[h])
        /\ timer[h] = "fired" =>
              /\ ~AskedTakeover(h)
              /\ h \notin held
              /\ onmessage[h] # "reply"

\* the blob URLs a host can have made
References == {CreateObjectURL(g) : g \in Hosts}

\* host h is connected: its attempt resolved and it has not left or disconnected
Connected(h) ==
    /\ pc[h] \in {"leading", "queued", "granted", "successor"}
    /\ outcome[h].status = "resolved"

\* host h leads: it holds the lock and answers pings
Leads(h) == Connected(h) /\ pc[h] \in {"leading", "successor"}

\* C26: while a host that leads with a reference is connected, every
\* connected host whose attempt succeeded obtained that same reference, be the
\* leader the host that generated it or one that took over.
C26_OneReference ==
    \A a \in Hosts :
        (Leads(a) /\ blob[a] \in References) =>
            \A h \in Hosts : Connected(h) => outcome[h].value = blob[a]

\* C27: a host that leads, as first leader or as successor, holds the lock, and
\* keeps it in every step except the one in which the host goes away or its
\* helper is disconnected.
C27_LeaderKeepsLock ==
    /\ [](\A h \in Hosts : pc[h] \in {"leading", "successor"} => h \in held)
    /\ [][\A h \in Hosts :
            (pc[h] \in {"leading", "successor"} /\ h \in held) =>
                \/ h \in held' /\ pc'[h] = pc[h]
                \/ pc'[h] \in {"gone", "closing"}]_vars

\* a successor holds the lock while another host waits for it
C27_Witness ==
    \E h, g \in Hosts :
        /\ pc[h] = "successor"
        /\ h \in held
        /\ pc[g] = "queued"

\* C28: for the lock name at most one exclusive callback is running at any
\* time, whatever the order of requests, releases and aborts.
C28_OneExclusiveCallback ==
    Cardinality({r \in Requesters : callback[r] = "running"}) <= 1

\* C29: a request whose signal was aborted before the call or while it waited
\* for the lock is rejected with an AbortError that carries the reason, and
\* its callback has not been invoked, however long ago the abort was.
C29_AbortedNeverRuns ==
    \A r \in Requesters :
        abortedAt[r] \in {"before", "waiting"} =>
            /\ result[r] = DOMException(AbortReason)
            /\ callback[r] = "none"

\* the runs whose task has been called and has not settled
TaskPending == {k \in Runs : runs[k].status \in {"sync", "awaiting"}}

\* C30: at most one task is pending at any time, the task that is pending
\* belongs to the oldest job left in the queue, and a run that came to its end
\* resolves to the number of tasks it called.
C30_OneTaskInOrder ==
    /\ Cardinality(TaskPending) <= 1
    /\ \A k \in TaskPending : \A x \in 1..(runs[k].pos - 1) : queue[x] = 0
    /\ \A k \in Runs : runs[k].status \in {"returned", "done"} => runs[k].i = runs[k].ran

\* C31: once the queue is disposed the job in #processing is aborted, no task
\* is called and no loop is started in any later step, and a process() call
\* made from then on returns a promise of 0.
C31_DisposedStartsNothing ==
    /\ [](disposed /\ processing # 0 => jobAborted[processing])
    /\ [][disposed =>
            /\ nruns' = nruns
            /\ \A k \in Runs : runs'[k].ran = runs[k].ran
            /\ lastProcess' # lastProcess => lastProcess' = 0]_vars

\* a disposed queue whose run ended after one task with a job left in the
\* queue, and a process() call that returned 0
C31_Witness ==
    /\ disposed
    /\ Size(queue) > 0
    /\ lastProcess = 0
    /\ \E k \in Runs : runs[k].status = "done" /\ runs[k].i = 1
    /\ \E j \in Jobs : jobAborted[j]

\* C32: delete(job) aborts the job if it is the one in #processing, leaves it
\* out of the queue and calls no task; if the job is not in the queue the
\* call changes nothing.  add(job) of the job in #processing changes nothing
\* either.  A task is only ever called for a job that is in the queue.
C32_DeleteAndReAdd ==
    /\ [][\A j \in Jobs :
            Delete(j) =>
                /\ processing = j => jobAborted'[j]
                /\ ~InQueue(queue', j)
                /\ runs' = runs
                /\ ~InQueue(queue, j) => UNCHANGED qvars]_vars
    /\ [][\A j \in Jobs :
            (Add(j) /\ processing = j) =>
                UNCHANGED <<queue, processing, promise, runs, nruns, jobAborted>>]_vars
    /\ [][\A k \in Runs :
            runs'[k].ran > runs[k].ran => InQueue(queue', runs'[k].job)]_vars

\* the keys of the cache that were neither put nor got since construction
Untouched == KeysOf(cache) \ {touched[x] : x \in DOMAIN touched}

\* the keys a reference LRU may evict: an initial entry never touched since,
\* else the key least recently put or got
LeastRecent == IF Untouched # {} THEN Untouched ELSE {touched[1]}

\* C33: the cache never holds more than capacity entries nor a key twice.  A
\* put of a new key into a full cache evicts exactly one entry, a least
\* recently touched one, a put of any other key evicts nothing; after a put
\* the key has the value put and the other entries kept theirs.  A get
\* changes no entry and a delete removes just its key.
C33_ReferenceLRU ==
    /\ [](/\ Len(cache) <= capacity
          /\ Cardinality(KeysOf(cache)) = Len(cache))
    /\ [][\A k \in Keys, v \in Values :
            Put(k, v) =>
                LET evicted == KeysOf(cache) \ KeysOf(cache')
                IN  /\ IF ~MapHas(cache, k) /\ Len(cache) = capacity
                       THEN /\ Cardinality(evicted) = 1
                            /\ evicted \subseteq LeastRecent
                       ELSE evicted = {}
                    /\ KeysOf(cache') = (KeysOf(cache) \ evicted) \cup {k}
                    /\ \A x \in DOMAIN cache' :
                          cache'[x].value = IF cache'[x].key = k THEN v
                                            ELSE cache[MapGet(cache, cache'[x].key)].value]_vars
    /\ [][\A k \in Keys :
            /\ Get(k) => {cache'[x] : x \in DOMAIN cache'} = {cache[x] : x \in DOMAIN cache}
            /\ CacheDelete(k) =>
                  {cache'[x] : x \in DOMAIN cache'} =
                      {cache[x] : x \in DOMAIN cache} \ {e \in {cache[x] : x \in DOMAIN cache} : e.key = k}]_vars

\* a full cache of two or more entries, all of them put or got, that has
\* evicted a key
C33_Witness ==
    /\ capacity >= 2
    /\ Len(cache) = capacity
    /\ Untouched = {}
    /\ lastEvicted # 0
    /\ ~MapHas(cache, lastEvicted)
    /\ touched[1] # cache[Len(cache)].key

\* call c was made with a signal that was aborted already
AbortedAtCall(c) ==
    /\ calls[c].sent
    /\ calls[c].sig = "aborted"
    /\ ~calls[c].listener

\* C34: a call made with a signal that is aborted already is never settled by
\* the worker's reply: it does not resolve, and if it is rejected, then with
\* the AbortError of the signal's reason.
C34_AbortedAtCallRejects ==
    \A c \in DOMAIN calls :
        AbortedAtCall(c) =>
            /\ calls[c].status # "resolved"
            /\ calls[c].got = << >>
            /\ calls[c].status = "rejected" => calls[c].value = AbortError(calls[c].reason)

\* disconnect() has been called on h and no init() call was made since the last one
DisconnectedSince(h) ==
    /\ epoch[h] >= 1
    /\ \A i \in DOMAIN initCalls :
          initCalls[i].h = h => initCalls[i].epoch < epoch[h]

\* C35: from a disconnect() until the next init() call the helper holds no
\* handle, also when the disconnect() came while an init was in progress.
C35_DisconnectedUntilInit ==
    DisconnectedSince(Standalone) => hstate[Standalone] = 0

C37_ClosesWithLastClient ==
    /\ lastMessage.type = "disconnect" =>
          /\ \E i \in DOMAIN lastMessage.before : lastMessage.before[i] = lastMessage.from
          /\ lastMessage.after =
                SelectSeq(lastMessage.before, LAMBDA x : x # lastMessage.from)
          /\ Len(lastMessage.after) = Len(lastMessage.before) - 1
    /\ closing <=> (lastMessage.type = "disconnect" /\ lastMessage.after = << >>)
    /\ clients # << >> => ~closing
    /\ lastMessage.type = "method" =>
          \E i \in DOMAIN lastMessage.before : lastMessage.before[i] = lastMessage.from
    /\ \A c \in Clients : listening[c] <=> \E i \in DOMAIN clients : clients[i] = c

\* the context served a client after another one had left, and closed when the
\* last of three left
C37_Witness ==
    /\ closing
    /\ \A c \in Clients : helper[c] = "gone"
    /\ lastMessage.before = <<lastMessage.from>>
    /\ \E c \in Clients : served[c] = 1 /\ c # lastMessage.from

(***************************************************************************)
(* Claims on SpecElect: the reply handler                                  *)
(***************************************************************************)

\* the hosts whose open channel has the handler that answers with the reference
Repliers == {h \in Hosts : channel[h] = "open" /\ onmessage[h] = "reply"}

\* C38: at most one host has the reply handler installed on the channel, and a
\* host that has it holds the lock.
C38_OneReplier ==
    /\ Cardinality(Repliers) <= 1
    /\ \A h \in Repliers : h \in held

\* the job is in the queue of a queue that is not disposed, is not aborted, and
\* its task has not been called
Waiting(j) ==
    /\ InQueue(queue, j)
    /\ ~jobAborted[j]
    /\ ~disposed
    /\ ~\E k \in Runs : runs[k].job = j /\ runs[k].status \in {"sync", "awaiting", "rejected"}

\* C39: a job that waits in a queue that is not disposed does not wait for
\* ever: its task is called, unless the job is aborted or deleted or the queue
\* disposed first.
C39_EveryJobRuns == \A j \in Jobs : Waiting(j) ~> ~Waiting(j)

(***************************************************************************)
(* Claims on SpecProxy: the fetchQueue of the bootstrap code               *)
(***************************************************************************)

\* C40: the fetchQueue of a context holds exactly its requests that were
\* forwarded and have had no response, each under an id of its own.
C40_QueueIsOutstanding ==
    pver = 2 =>
        /\ \A r \in DOMAIN fetches :
              fetches[r].queued <=> fetches[r].responses = 0
        /\ \A r1, r2 \in DOMAIN fetches :
              (r1 # r2 /\ fetches[r1].ctx = fetches[r2].ctx) =>
                  fetches[r1].id # fetches[r2].id

====
